---- MODULE Spec2Model ----
(***************************************************************************)
(* kubedash: the refresh coordinator (App.Run, App.TriggerRefresh,         *)
(* App.refreshData, App.retryInBackground), the state cache                *)
(* (StateCache.Put / Compare), the change-log table and the UI thread      *)
(* that runs queued updates and key handlers.                              *)
(*                                                                         *)
(* Goroutines of the model:                                                *)
(*   - the refresh handler goroutine started by App.Run (record h),        *)
(*   - the retryInBackground goroutines it spawns (function retry),        *)
(*   - the tview UI thread (UIRunUpdate and the Key* actions),             *)
(*   - the 10 s time.Ticker (Tick).                                        *)
(* Every access to shared memory (atomics, channels, the UI queue) is one  *)
(* step; a goroutine's position is its pc.                                 *)
(***************************************************************************)
EXTENDS Integers, Sequences, FiniteSets, TLC

---------------------------------------------------------------------------
\* Bounds of the model.

\* Fetches (provider.UpdateNodeData calls) started after the initial load.
MaxFetches == 3

\* retryInBackground goroutines alive at the same time.
MaxRetryLoops == 2

\* Closures waiting in tview's update queue (QueueUpdateDraw blocks beyond).
MaxUIQueue == 2

\* Goroutines calling one StateCache concurrently.
MaxCallers == 2

\* Program constants.

\* Container statuses of a pod given to the indicator classifier.
MaxContainers == 2

\* Indicators in a list given to the indicator sort.
MaxIndicators == 4

\* Pod names a node of a raw snapshot may hold.
MaxPods == 2

\* Calls of filterAndTransformData made with the same arguments.
MaxCalls == 2

\* The number of AddChange calls made on a change log on its own.
MaxAdds == 22

\* make(chan struct{}, 1)
RefreshChanCap == 1

\* cv.addRowReverseWithTruncate(cells, 20)
MaxRows == 20

---------------------------------------------------------------------------
\* Snapshot data.

Nodes == {"n1", "n2"}

NodeStatusReady == "Ready"

NodeStatusNotReady == "NotReady"

\* The nil interface value of ResourceState.Data.
NilData == [kind |-> "nil"]

\* A value of another dynamic type stored in ResourceState.Data.
OtherData == [kind |-> "other"]

\* ContainerInfo{Status, RestartCount}
ContainerInfo(status, restartCount) ==
    [Status |-> status, RestartCount |-> restartCount]

\* PodInfo{Name, Status, RestartCount, ContainerInfo}
PodInfo(name, status, restartCount, containerInfo) ==
    [Name |-> name, Status |-> status, RestartCount |-> restartCount,
     ContainerInfo |-> containerInfo]

\* NodeData{Name, Status, Version, Age, PodCount, PodIndicators, Pods,
\* TotalPods}
NodeData(name, status, version, age, podCount, podIndicators, pods, totalPods) ==
    [kind |-> "NodeData", Name |-> name, Status |-> status, Version |-> version,
     Age |-> age, PodCount |-> podCount, PodIndicators |-> podIndicators,
     Pods |-> pods, TotalPods |-> totalPods]

\* A NodeData value with no pods.
MkNode(status, version, podCount) ==
    NodeData("", status, version, "1d", podCount, "", << >>, 0)

\* The empty map[string]NodeData.
EmptySnap == << >>

\* map[string]NodeData with the one key k.
Snap1(k, d) == [n \in {k} |-> d]

\* The results a successful UpdateNodeData returns in this model: no node,
\* or one node that is ready.
Snapshots ==
    { EmptySnap,
      Snap1("n1", MkNode(NodeStatusReady, "v1", "0")) }

\* Inputs of the StateCache calls.

CacheKeys == {"n1", "n2"}

PodNames == {"p1", "p2"}

ContainerNames == {"c1", "c2"}

\* Pod values: a running pod with one container, the same pod pending, with
\* a restart (of the pod and of its container), with the container waiting
\* and a second container, and with no container.
PodInfos(p) ==
    { PodInfo(p, "Running", 0, [c \in {"c1"} |-> ContainerInfo("Running", 0)]),
      PodInfo(p, "Pending", 0, [c \in {"c1"} |-> ContainerInfo("Running", 0)]),
      PodInfo(p, "Running", 1, [c \in {"c1"} |-> ContainerInfo("Running", 1)]),
      PodInfo(p, "Running", 0, [c \in {"c1", "c2"} |->
                                  IF c = "c1" THEN ContainerInfo("Waiting", 0)
                                  ELSE ContainerInfo("Running", 0)]),
      PodInfo(p, "Running", 0, << >>) }

\* map[string]PodInfo values over PodNames.
PodMaps ==
    UNION { { m \in [S -> UNION { PodInfos(p) : p \in S }] :
                \A p \in S : m[p] \in PodInfos(p) } :
            S \in SUBSET PodNames }

\* Node values without pods: every combination of Status, Version and
\* PodCount, with the remaining fields (Age, PodIndicators, TotalPods) in
\* one of two settings.
NodeFieldDatas(k) ==
    { NodeData(k, st, ver, o[1], pc, o[2], << >>, o[3]) :
        st \in {NodeStatusReady, NodeStatusNotReady},
        ver \in {"v1", "v2"},
        pc \in {"0", "1"},
        o \in { <<"1d", "", 0>>, <<"2d", "x", 5>> } }

\* Node values that differ in their pods only.
NodePodDatas(k) ==
    { NodeData(k, NodeStatusReady, "v1", "1d", "0", "", pods, 0) : pods \in PodMaps }

\* The Data values passed for key k: for "n1" every node value above, nil
\* and a value that is not a NodeData; for the other keys a few.
CacheData(k) ==
    IF k = "n1"
    THEN NodeFieldDatas(k) \cup NodePodDatas(k) \cup {NilData, OtherData}
    ELSE { NilData,
           NodeData(k, NodeStatusReady, "v1", "1d", "0", "", << >>, 0),
           NodeData(k, NodeStatusNotReady, "v1", "1d", "0", "", << >>, 0) }

---------------------------------------------------------------------------
\* Go maps as functions.

MapPut(m, k, v) == [x \in (DOMAIN m) \cup {k} |-> IF x = k THEN v ELSE m[x]]

MapDelete(m, k) == [x \in (DOMAIN m) \ {k} |-> m[x]]

\* All orders in which a range loop may visit the key set S.
Orders(S) ==
    { o \in [1..Cardinality(S) -> S] :
        \A i, j \in 1..Cardinality(S) : i # j => o[i] # o[j] }

\* A range loop over a map whose body appends, for key x, one of the event
\* sequences body[x]: every visiting order gives one result.
RECURSIVE RangeResults(_)
RangeResults(body) ==
    IF DOMAIN body = {} THEN { << >> }
    ELSE UNION { { b \o rest :
                     b \in body[x],
                     rest \in RangeResults([y \in (DOMAIN body) \ {x} |-> body[y]]) } :
                 x \in DOMAIN body }

---------------------------------------------------------------------------
\* ChangeEvent and its interface{} values.

NilVal == <<"nil">>

StrVal(s) == <<"string", s>>

IntVal(i) == <<"int", i>>

NodeVal(d) == IF d.kind = "nil" THEN NilVal ELSE <<d.kind, d>>

ChangeEvent(rtype, name, ctype, field, old, new) ==
    [ResourceType |-> rtype, ResourceName |-> name, ChangeType |-> ctype,
     Field |-> field, OldValue |-> old, NewValue |-> new]

\* fmt.Sprintf("%s/%s", key, podName)
PodKey(key, podName) == key \o "/" \o podName

\* fmt.Sprintf("%s/%s/%s", key, podName, containerName)
ContainerKey(key, podName, containerName) ==
    key \o "/" \o podName \o "/" \o containerName

\* One Modified event when the two values differ, none otherwise.
ModifiedIf(rtype, name, field, old, new) ==
    IF old # new
    THEN << ChangeEvent(rtype, name, "Modified", field, old, new) >>
    ELSE << >>

\* A container comparison that looks at the status only.
NewContainerEventsStatusOnly(key, podName, c, oldPod, newPod) ==
    IF c \notin DOMAIN oldPod.ContainerInfo
    THEN << ChangeEvent("Container", ContainerKey(key, podName, c), "Added",
                        "Status", NilVal, StrVal(newPod.ContainerInfo[c].Status)) >>
    ELSE ModifiedIf("Container", ContainerKey(key, podName, c), "Status",
                    StrVal(oldPod.ContainerInfo[c].Status),
                    StrVal(newPod.ContainerInfo[c].Status))

\* Body of the loop over newPod.ContainerInfo.
NewContainerEvents(key, podName, c, oldPod, newPod) ==
    IF c \notin DOMAIN oldPod.ContainerInfo
    THEN << ChangeEvent("Container", ContainerKey(key, podName, c), "Added",
                        "Status", NilVal, StrVal(newPod.ContainerInfo[c].Status)) >>
    ELSE ModifiedIf("Container", ContainerKey(key, podName, c), "Status",
                    StrVal(oldPod.ContainerInfo[c].Status),
                    StrVal(newPod.ContainerInfo[c].Status))
         \o ModifiedIf("Container", ContainerKey(key, podName, c), "RestartCount",
                       IntVal(oldPod.ContainerInfo[c].RestartCount),
                       IntVal(newPod.ContainerInfo[c].RestartCount))

\* Body of the loop over oldPod.ContainerInfo (removed containers).
RemovedContainerEvents(key, podName, c, oldPod) ==
    << ChangeEvent("Container", ContainerKey(key, podName, c), "Removed",
                   "Status", StrVal(oldPod.ContainerInfo[c].Status), NilVal) >>

\* Body of the loop over newData.Pods: the event sequences pod p may yield.
NewPodResults(key, p, oldData, newData) ==
    IF p \notin DOMAIN oldData.Pods
    THEN { << ChangeEvent("Pod", PodKey(key, p), "Added", "Status",
                          NilVal, StrVal(newData.Pods[p].Status)) >> }
    ELSE LET oldPod == oldData.Pods[p]
             newPod == newData.Pods[p]
             head == ModifiedIf("Pod", PodKey(key, p), "Status",
                                StrVal(oldPod.Status), StrVal(newPod.Status))
                     \o ModifiedIf("Pod", PodKey(key, p), "RestartCount",
                                   IntVal(oldPod.RestartCount),
                                   IntVal(newPod.RestartCount))
             conts == [c \in DOMAIN newPod.ContainerInfo |->
                         { NewContainerEvents(key, p, c, oldPod, newPod) }]
             gone == [c \in (DOMAIN oldPod.ContainerInfo)
                              \ (DOMAIN newPod.ContainerInfo) |->
                         { RemovedContainerEvents(key, p, c, oldPod) }]
         IN { head \o a \o b : a \in RangeResults(conts), b \in RangeResults(gone) }

\* A comparison that does not report removed pods.
NoRemovedPodEvents(key, p, oldData) == << >>

\* Body of the loop over oldData.Pods (removed pods).
RemovedPodEvents(key, p, oldData) ==
    << ChangeEvent("Pod", PodKey(key, p), "Removed", "Status",
                   StrVal(oldData.Pods[p].Status), NilVal) >>

\* Node-level field checks that also compare Age.
NodeFieldEventsWithAge(key, oldData, newData) ==
    ModifiedIf("Node", key, "Status", StrVal(oldData.Status), StrVal(newData.Status))
    \o ModifiedIf("Node", key, "Version",
                  StrVal(oldData.Version), StrVal(newData.Version))
    \o ModifiedIf("Node", key, "PodCount",
                  StrVal(oldData.PodCount), StrVal(newData.PodCount))
    \o ModifiedIf("Node", key, "Age", StrVal(oldData.Age), StrVal(newData.Age))

\* The node-level field checks of Compare.
NodeFieldEvents(key, oldData, newData) ==
    ModifiedIf("Node", key, "Status", StrVal(oldData.Status), StrVal(newData.Status))
    \o ModifiedIf("Node", key, "Version",
                  StrVal(oldData.Version), StrVal(newData.Version))
    \o ModifiedIf("Node", key, "PodCount",
                  StrVal(oldData.PodCount), StrVal(newData.PodCount))

\* oldState.Data.(NodeData) / newState.Data.(NodeData)
IsNodeData(d) == d.kind = "NodeData"

\* A Compare that reports a child event along with every node.
CompareResultsWithChildren(cache, key, newData) ==
    { << ChangeEvent("Node", key, "Added", "", NilVal, NodeVal(newData)),
         ChangeEvent("Pod", PodKey(key, "p1"), "Added", "Status", NilVal, NilVal) >> }

\* StateCache.Compare: the event sequences the call may return (one per
\* iteration order of the pod and container maps).
CompareResults(cache, key, newData) ==
    IF key \notin DOMAIN cache
    THEN { << ChangeEvent("Node", key, "Added", "", NilVal, NodeVal(newData)) >> }
    ELSE IF newData.kind = "nil"
    THEN { << ChangeEvent("Node", key, "Removed", "", NodeVal(cache[key]), NilVal) >> }
    ELSE IF ~IsNodeData(cache[key]) \/ ~IsNodeData(newData)
    THEN { << >> }
    ELSE LET oldData == cache[key]
             pods == [p \in DOMAIN newData.Pods |->
                        NewPodResults(key, p, oldData, newData)]
             gone == [p \in (DOMAIN oldData.Pods) \ (DOMAIN newData.Pods) |->
                        { RemovedPodEvents(key, p, oldData) }]
         IN { NodeFieldEvents(key, oldData, newData) \o a \o b :
                a \in RangeResults(pods), b \in RangeResults(gone) }

\* Compare returns from its third branch before the cache update: the key
\* exists, the new data is not nil, and one of the two type assertions
\* fails.
TypeCheckFails(exists, oldData, newData) ==
    exists /\ newData.kind # "nil" /\ (~IsNodeData(oldData) \/ ~IsNodeData(newData))

\* A cache update that keeps the entry on a removal.
CacheUpdateNoDelete(cache, key, newData) ==
    IF newData.kind # "nil" THEN MapPut(cache, key, newData) ELSE cache

\* "Update cache with new state if it's not a removal"
CacheUpdate(cache, key, newData) ==
    IF newData.kind # "nil"
    THEN MapPut(cache, key, newData)
    ELSE MapDelete(cache, key)

\* StateCache.Compare: the cache the call leaves (the early returns of the
\* type assertions skip the update).
CompareCache(cache, key, newData) ==
    IF key \in DOMAIN cache /\ TypeCheckFails(TRUE, cache[key], newData)
    THEN cache
    ELSE CacheUpdate(cache, key, newData)

\* StateCache.Put
Put(cache, key, data) == MapPut(cache, key, data)

---------------------------------------------------------------------------
\* The change-log table (ChangeLogView).

Digit(d) ==
    CASE d = 0 -> "0" [] d = 1 -> "1" [] d = 2 -> "2" [] d = 3 -> "3"
      [] d = 4 -> "4" [] d = 5 -> "5" [] d = 6 -> "6" [] d = 7 -> "7"
      [] d = 8 -> "8" [] d = 9 -> "9"

\* fmt.Sprintf("%v", n) for a non-negative int.
RECURSIVE IntToStr(_)
IntToStr(n) == IF n < 10 THEN Digit(n) ELSE IntToStr(n \div 10) \o Digit(n % 10)

\* formatValue
formatValue(v) ==
    CASE v[1] = "nil" -> "-"
      [] v[1] = "NodeData" -> "present"
      [] v[1] = "string" -> v[2]
      [] v[1] = "int" -> IntToStr(v[2])
      [] OTHER -> "value"

\* The header row NewChangeLogView and Clear put in row 0.
HeaderRow == <<"Time", "Resource", "Name", "Change", "Field", "Old Value", "New Value">>

\* The cells AddChange builds for an event (the time cell holds the clock).
ChangeRow(ev) ==
    <<"time", ev.ResourceType, ev.ResourceName, ev.ChangeType, ev.Field,
      formatValue(ev.OldValue), formatValue(ev.NewValue)>>

\* A row insertion that truncates only once the table holds more than maxRows
\* rows.
addRowReverseTruncateLate(tbl, cells, maxRows) ==
    LET rowCount == Len(tbl)
        shifted == << tbl[1], cells >> \o SubSeq(tbl, 2, rowCount)
    IN IF rowCount > maxRows
       THEN SubSeq(shifted, 1, rowCount)
       ELSE shifted

\* addRowReverseWithTruncate on a table given as its sequence of rows, row 0
\* first: rows 1.. move down one, the new row becomes row 1, and the last
\* row is removed when the table already had maxRows rows.
addRowReverseWithTruncate(tbl, cells, maxRows) ==
    LET rowCount == Len(tbl)
        shifted == << tbl[1], cells >> \o SubSeq(tbl, 2, rowCount)
    IN IF rowCount >= maxRows
       THEN SubSeq(shifted, 1, rowCount)
       ELSE shifted

\* ChangeLogView.AddChange
AddChange(tbl, ev) == addRowReverseWithTruncate(tbl, ChangeRow(ev), MaxRows)

\* AddChange for each event of a slice, in order.
RECURSIVE AddChanges(_, _)
AddChanges(tbl, evs) ==
    IF evs = << >> THEN tbl
    ELSE AddChanges(AddChange(tbl, Head(evs)), Tail(evs))

\* ChangeLogView.Clear
Clear(tbl) == << HeaderRow >>

---------------------------------------------------------------------------
\* Strings. A Go string is modelled as the sequence of its characters (or of
\* its indivisible pieces, such as a colour tag).

\* strings.ToLower on one character of the alphabet used here.
ToLowerChar(c) == CASE c = "A" -> "a" [] c = "B" -> "b" [] c = "C" -> "c" [] OTHER -> c

\* strings.ToLower
ToLower(str) == [i \in 1..Len(str) |-> ToLowerChar(str[i])]

\* strings.Contains
Contains(str, substr) ==
    \E i \in 0..(Len(str) - Len(substr)) :
        \A j \in 1..Len(substr) : str[i + j] = substr[j]

RECURSIVE Join(_)
\* strings.Join(elems, "")
Join(elems) == IF elems = << >> THEN << >> ELSE Head(elems) \o Join(Tail(elems))

---------------------------------------------------------------------------
\* Pod indicators: the classifier and the sort.

ColorRed == "red"

ColorYellow == "yellow"

ColorGreen == "green"

ColorTagRed == <<"[red]">>

ColorTagYellow == <<"[yellow]">>

ColorTagGreen == <<"[green]">>

\* "[red]<square>[white] " and its yellow and green counterparts ("#" stands
\* for the square character).
PodIndicatorRed == <<"[red]", "#", "[white]", " ">>

PodIndicatorYellow == <<"[yellow]", "#", "[white]", " ">>

PodIndicatorGreen == <<"[green]", "#", "[white]", " ">>

PodStatusRunning == "Running"

PodStatusTerminating == "Terminating"

PodStatusUnknown == "Unknown"

\* corev1.ContainerStatus: state is the member of State that is set
\* ("Running", "Waiting", "Terminated" or "None"), reason its Reason.
ContainerStatus(name, ready, restartCount, state, reason) ==
    [Name |-> name, Ready |-> ready, RestartCount |-> restartCount,
     State |-> state, Reason |-> reason]

\* corev1.Pod, the fields the program reads: containers is Spec.Containers
\* (their names), deleting says DeletionTimestamp is set.
Pod(name, namespace, phase, deleting, containers, containerStatuses) ==
    [Name |-> name, Namespace |-> namespace, Phase |-> phase,
     Deleting |-> deleting, Containers |-> containers,
     ContainerStatuses |-> containerStatuses]

\* The waiting reasons GetPodIndicator shows as red.
ErrorReasons == {"CrashLoopBackOff", "Error", "ImagePullBackOff", "ErrImagePull"}

\* GetPodIndicator, the body of its loop for one container status: the
\* indicator it returns, or "next" when the loop goes on.
ContainerIndicator(cs) ==
    IF ~cs.Ready
    THEN IF cs.State = "Waiting"
         THEN IF cs.Reason \in ErrorReasons THEN PodIndicatorRed
              ELSE PodIndicatorYellow
         ELSE PodIndicatorYellow
    ELSE IF cs.RestartCount > 0 THEN PodIndicatorYellow
    ELSE IF cs.State = "Waiting" THEN PodIndicatorYellow
    ELSE IF cs.State = "Terminated" THEN PodIndicatorRed
    ELSE "next"

RECURSIVE ContainerLoop(_, _)
\* GetPodIndicator, its loop over pod.Status.ContainerStatuses from index i.
ContainerLoop(statuses, i) ==
    IF i > Len(statuses) THEN "next"
    ELSE IF ContainerIndicator(statuses[i]) # "next"
         THEN ContainerIndicator(statuses[i])
         ELSE ContainerLoop(statuses, i + 1)

\* GetPodIndicator of client.go.
GetPodIndicator(pod) ==
    IF pod.Phase = "Failed" THEN PodIndicatorRed
    ELSE IF pod.Phase = "Pending" THEN PodIndicatorYellow
    ELSE IF ContainerLoop(pod.ContainerStatuses, 1) # "next"
         THEN ContainerLoop(pod.ContainerStatuses, 1)
    ELSE IF Len(pod.ContainerStatuses) = 0 /\ pod.Phase = "Running"
         THEN PodIndicatorYellow
    ELSE PodIndicatorGreen

RECURSIVE TotalRestarts(_)
\* The sum of RestartCount over the container statuses.
TotalRestarts(statuses) ==
    IF statuses = << >> THEN 0
    ELSE Head(statuses).RestartCount + TotalRestarts(Tail(statuses))

\* GetPodIndicator next to GetPodInfo and SortPodIndicators: restarts are
\* looked at first, then the phase.
GetPodIndicatorRestartsFirst(pod) ==
    IF TotalRestarts(pod.ContainerStatuses) > 0 THEN PodIndicatorYellow
    ELSE IF pod.Phase = "Running" THEN PodIndicatorGreen
    ELSE IF pod.Phase = "Pending" THEN PodIndicatorYellow
    ELSE PodIndicatorRed

\* A colour test that does not know the yellow tag.
ColorWithoutYellow(indicator) ==
    IF Contains(indicator, ColorTagRed) THEN ColorRed ELSE ColorGreen

\* SortPodIndicators, the colour it reads off an indicator.
Color(indicator) ==
    IF Contains(indicator, ColorTagRed) THEN ColorRed
    ELSE IF Contains(indicator, ColorTagYellow) THEN ColorYellow
    ELSE ColorGreen

\* SortPodIndicators, its colorPriority map.
colorPriority == (ColorRed :> 0) @@ (ColorYellow :> 1) @@ (ColorGreen :> 2)

\* sorted[i], sorted[j] = sorted[j], sorted[i]
Swap(sorted, i, j) == [sorted EXCEPT ![i] = sorted[j], ![j] = sorted[i]]

RECURSIVE SortLoop(_, _, _)
\* SortPodIndicators, its two nested loops from (i, j) on (indices from 1).
SortLoop(sorted, i, j) ==
    IF i > Len(sorted) - 1 THEN sorted
    ELSE IF j > Len(sorted) THEN SortLoop(sorted, i + 1, i + 2)
    ELSE IF colorPriority[Color(sorted[i])] > colorPriority[Color(sorted[j])]
         THEN SortLoop(Swap(sorted, i, j), i, j + 1)
         ELSE SortLoop(sorted, i, j + 1)

\* SortPodIndicators (exchange sort on a copy of the list).
SortPodIndicators(indicators) == SortLoop(indicators, 1, 2)

\* The bijections of 1..n.
Perms(n) == { f \in [1..n -> 1..n] : \A i, j \in 1..n : f[i] = f[j] => i = j }

\* SortPodIndicators of k8s_data.go: sort.Slice with the same colour
\* priorities. sort.Slice is not stable, so every arrangement of the list that
\* is ordered by priority is a possible result.
SortPodIndicatorsSlice(indicators) ==
    { out \in { [i \in 1..Len(indicators) |-> indicators[f[i]]] : f \in Perms(Len(indicators)) } :
        \A i \in 1..(Len(out) - 1) :
            ~(colorPriority[Color(out[i + 1])] < colorPriority[Color(out[i])]) }

---------------------------------------------------------------------------
\* State.

VARIABLES
    refreshChan,     \* a.refreshChan: the tokens buffered, oldest first; each
                     \* carries who sent it ("tick" or "manual")
    tickPending,     \* ticker.C holds a tick (its buffer is one tick)
    isRefreshing,    \* a.isRefreshing
    hasError,        \* a.hasError
    showingDetails,  \* a.showingDetails, as last written by the UI thread
    sdStale,         \* earlier values of a.showingDetails the handler
                     \* goroutine may still read (unsynchronised plain bool)
    h,               \* the refresh handler goroutine: pc and locals
    retry,           \* the retryInBackground goroutines: pc and locals
    uiQueue,         \* closures handed to QueueUpdateDraw, oldest first
    errorModal,      \* ui.pages holds the "error" page
    table,           \* the node table: the nodeData UpdateTable last drew
    nodeMap,         \* keys of ui.nodeView.GetNodeMap()
    changeLog,       \* rows of changeLogView.table, row 0 first
    cache,           \* a.stateCache.cache: key -> ResourceState.Data
    provNodeMap,     \* keys of a.provider.GetNodeMap()
    nFetch,          \* UpdateNodeData calls started since the initial load
    episode,         \* history: failures and error signals since the last
                     \* fetch that succeeded with data
    owed,            \* history: workers whose fetch ended a failure episode
                     \* and that have not yet cleared the error
    trig,            \* history: TriggerRefresh calls and handler fetches
    tableSource,     \* history: where the snapshot the table shows comes
                     \* from ("initial", "compared", "uncompared")
    offThread,       \* history: UI-owned objects mutated off the UI thread
    sc,              \* a StateCache shared by concurrent callers: its cache map
    mu,              \* that StateCache's sc.mu: the writer and the readers
    callers,         \* the goroutines calling Put / Get / Compare on it
    fin,             \* the view filter's input: criteria and one pod
    fout,            \* the view filter's decision for that input
    call,            \* a call of a pure function: its name and arguments
    result           \* what the calls made with these arguments returned

coordVars == <<refreshChan, tickPending, isRefreshing, hasError, h, retry, nFetch>>

uiVars == <<showingDetails, sdStale, uiQueue, errorModal, table, nodeMap, changeLog>>

dataVars == <<cache, provNodeMap>>

histVars == <<episode, owed, trig, tableSource, offThread>>

appVars == <<coordVars, uiVars, dataVars, histVars>>

cacheVars == <<sc, mu, callers>>

filterVars == <<fin, fout>>

pureVars == <<call, result>>

libVars == <<cacheVars, filterVars, pureVars>>

vars == <<appVars, libVars>>

RetryIds == 1..MaxRetryLoops

\* The value UpdateNodeData returns with a non-nil error.
FetchError == [err |-> TRUE, nodeData |-> EmptySnap]

FetchOk(snap) == [err |-> FALSE, nodeData |-> snap]

\* What a call of provider.UpdateNodeData may return.
FetchOutcomes == { FetchError } \cup { FetchOk(snap) : snap \in Snapshots }

\* Closures queued with QueueUpdateDraw; `compared` records whether the
\* snapshot went through StateCache.Compare before the closure was queued.
TitleUpdate == [kind |-> "title", nodeData |-> EmptySnap, compared |-> FALSE]

ShowError == [kind |-> "show", nodeData |-> EmptySnap, compared |-> FALSE]

TableUpdate(nd, cmp) == [kind |-> "table", nodeData |-> nd, compared |-> cmp]

RetryUpdate(nd, cmp) == [kind |-> "retry", nodeData |-> nd, compared |-> cmp]

\* QueueUpdateDraw(f): a send on tview's buffered update channel; n closures
\* fit.
CanQueue(n) == Len(uiQueue) + n <= MaxUIQueue

\* Workers with an UpdateNodeData call in flight: 0 is the refresh handler
\* goroutine, r > 0 the retry goroutine r.
InFlight ==
    (IF h.pc = "fetching" THEN {0} ELSE {})
    \cup { r \in RetryIds : retry[r].pc = "fetching" }

HandlerIdle == [pc |-> "select", src |-> "none", err |-> FALSE,
                nodeData |-> EmptySnap, compared |-> FALSE]

RetryIdle == [pc |-> "idle", tried |-> FALSE, err |-> FALSE, nodeData |-> EmptySnap]

\* Goroutines calling the shared StateCache.
Callers == 1..MaxCallers

\* sync.RWMutex: the goroutine holding the write lock (0: none) and the
\* goroutines holding a read lock.
MutexFree == [writer |-> 0, readers |-> {}]

\* A caller outside any call, with the zero values of its locals.
CallerIdle == [pc |-> "idle", op |-> "none", key |-> "", newData |-> NilData,
               exists |-> FALSE, old |-> NilData, events |-> << >>]

\* The view filter before any input was given.
NoFilterInput == [include |-> << >>, exclude |-> << >>, ns |-> ""]

\* No pure function is being called.
NoCall == [fn |-> "none"]

NoResult == << >>

NoFilterOutput == [by |-> "none", kept |-> FALSE]

\* An App.Run that does not put the initial snapshot into the state cache.
InitialLoadNoPut(nodeData) == << >>

\* App.Run, "Initialize state cache after UI is ready": the cache after
\* a.stateCache.Put(nodeName, ...) for every node of the initial snapshot.
RECURSIVE PutAll(_, _, _)
PutAll(c, keys, nodeData) ==
    IF keys = {} THEN c
    ELSE LET k == CHOOSE x \in keys : TRUE
         IN PutAll(Put(c, k, nodeData[k]), keys \ {k}, nodeData)

InitialLoad(nodeData) == PutAll(<< >>, DOMAIN nodeData, nodeData)

\* NewApp / NewStateCache and
\* App.Run up to the start of the goroutines: the initial load succeeded
\* with snapshot s0, the node map and table show it, the cache holds it.
AppInitWith(s0) ==
        /\ refreshChan = << >>
        /\ tickPending = FALSE
        /\ isRefreshing = FALSE
        /\ hasError = FALSE
        /\ showingDetails = FALSE
        /\ sdStale = {}
        /\ h = HandlerIdle
        /\ retry = [r \in RetryIds |-> RetryIdle]
        /\ uiQueue = << >>
        /\ errorModal = FALSE
        /\ table = s0
        /\ nodeMap = DOMAIN s0
        /\ changeLog = << HeaderRow >>
        /\ cache = InitialLoad(s0)
        /\ provNodeMap = DOMAIN s0
        /\ nFetch = 0
        /\ episode = [failed |-> FALSE, shows |-> 0, handlerFailed |-> FALSE]
        /\ owed = {}
        /\ trig = [calls |-> 0, accepted |-> 0, late |-> FALSE,
                   tickForwarded |-> FALSE, handlerFetches |-> 0]
        /\ tableSource = "initial"
        /\ offThread = {}
        /\ sc = << >>
        /\ mu = MutexFree
        /\ callers = [t \in Callers |-> CallerIdle]
        /\ fin = NoFilterInput
        /\ fout = NoFilterOutput

AppInit == \E s0 \in Snapshots : AppInitWith(s0)

Init == AppInit /\ call = NoCall /\ result = NoResult

---------------------------------------------------------------------------
\* History bookkeeping (no effect on the program's state).

Min(a, b) == IF a < b THEN a ELSE b

\* A fetch by worker w (0: the handler) returned `out`: a failure opens or
\* extends the failure episode, a success with data ends it; the first such
\* success after an episode whose error was signalled owes the
\* error-cleared signal.
NoteFetchResult(w, out) ==
    IF out.err
    THEN /\ episode' = [failed |-> TRUE,
                        shows |-> episode.shows,
                        handlerFailed |-> episode.handlerFailed \/ w = 0]
         /\ owed' = owed
    ELSE IF out.nodeData # EmptySnap
    THEN /\ episode' = [failed |-> FALSE, shows |-> 0, handlerFailed |-> FALSE]
         /\ owed' = IF episode.failed /\ episode.shows > 0
                    THEN owed \cup {w} ELSE owed
    ELSE UNCHANGED <<episode, owed>>

\* Once a tick was forwarded the trigger counts are no longer read.
TrigFrozen == [calls |-> 0, accepted |-> 0, late |-> FALSE,
               tickForwarded |-> TRUE, handlerFetches |-> 0]

NoteTrigger(acceptedNow) ==
    trig' = IF trig.tickForwarded THEN trig
            ELSE [trig EXCEPT !.calls = Min(@ + 1, 2),
                              !.accepted = IF acceptedNow
                                           THEN Min(@ + 1, MaxFetches) ELSE @,
                              !.late = @ \/ trig.handlerFetches > 0]

NoteHandlerFetch ==
    trig' = IF trig.tickForwarded THEN trig
            ELSE [trig EXCEPT !.handlerFetches = @ + 1]

---------------------------------------------------------------------------
\* The refresh handler goroutine of App.Run.

\* select, case <-ticker.C: a.refreshChan <- struct{}{}. The send blocks
\* while the buffer is full; this goroutine is the channel's only receiver,
\* so a blocked send stays blocked.
HandlerTick ==
    /\ h.pc = "select"
    /\ tickPending
    /\ tickPending' = FALSE
    /\ IF Len(refreshChan) < RefreshChanCap
       THEN /\ refreshChan' = Append(refreshChan, "tick")
            /\ h' = h
            /\ trig' = TrigFrozen
       ELSE /\ refreshChan' = refreshChan
            /\ h' = [h EXCEPT !.pc = "blocked"]
            /\ trig' = trig
    /\ UNCHANGED <<isRefreshing, hasError, retry, nFetch>>
    /\ UNCHANGED <<uiVars, dataVars, episode, owed, tableSource, offThread>>
    /\ UNCHANGED libVars

\* select, case <-a.refreshChan: refreshData is entered,
\* if !a.isRefreshing.CompareAndSwap(false, true) { return nil }
HandlerRecv ==
    /\ h.pc = "select"
    /\ refreshChan # << >>
    /\ refreshChan' = Tail(refreshChan)
    /\ IF ~isRefreshing
       THEN /\ isRefreshing' = TRUE
            /\ h' = [h EXCEPT !.pc = "check", !.src = Head(refreshChan)]
       ELSE /\ isRefreshing' = isRefreshing
            /\ h' = h
    /\ UNCHANGED <<tickPending, hasError, retry, nFetch>>
    /\ UNCHANGED <<uiVars, dataVars, histVars>>
    /\ UNCHANGED libVars

\* if a.showingDetails { return nil } (with the deferred
\* a.isRefreshing.Store(false) and title redraw), else
\* provider.UpdateNodeData is called. The read of a.showingDetails is not
\* synchronised with the UI thread's writes.
HandlerCheckDetails ==
    /\ h.pc = "check"
    /\ \E seen \in {showingDetails} \cup sdStale :
          IF seen
          THEN /\ CanQueue(1)
               /\ isRefreshing' = FALSE
               /\ uiQueue' = Append(uiQueue, TitleUpdate)
               /\ h' = HandlerIdle
               /\ UNCHANGED <<nFetch, trig>>
          ELSE /\ nFetch < MaxFetches
               /\ nFetch' = nFetch + 1
               /\ h' = [h EXCEPT !.pc = "fetching", !.src = "none"]
               /\ NoteHandlerFetch
               /\ UNCHANGED <<isRefreshing, uiQueue>>
    /\ UNCHANGED <<refreshChan, tickPending, hasError, retry>>
    /\ UNCHANGED <<showingDetails, sdStale, errorModal, table, nodeMap, changeLog>>
    /\ UNCHANGED <<dataVars, episode, owed, tableSource, offThread>>
    /\ UNCHANGED libVars

\* A refreshData that goes on with whatever UpdateNodeData returned, without
\* the err != nil check.
HandlerFetchReturnUnchecked ==
    /\ h.pc = "fetching"
    /\ \E out \in FetchOutcomes :
          /\ NoteFetchResult(0, out)
          /\ h' = [h EXCEPT !.pc = "diff", !.err = out.err,
                            !.nodeData = out.nodeData]
          /\ provNodeMap' = IF out.err THEN provNodeMap ELSE DOMAIN out.nodeData
    /\ UNCHANGED <<refreshChan, tickPending, isRefreshing, hasError, retry, nFetch>>
    /\ UNCHANGED <<uiVars, cache, trig, tableSource, offThread>>
    /\ UNCHANGED libVars

\* UpdateNodeData returns to refreshData. On success ProcessNodeData has
\* replaced the provider's node map; on error refreshData returns the error
\* (with the deferred a.isRefreshing.Store(false) and title redraw).
HandlerFetchReturn ==
    /\ h.pc = "fetching"
    /\ \E out \in FetchOutcomes :
          /\ NoteFetchResult(0, out)
          /\ IF out.err
             THEN /\ CanQueue(1)
                  /\ isRefreshing' = FALSE
                  /\ uiQueue' = Append(uiQueue, TitleUpdate)
                  /\ h' = [h EXCEPT !.pc = "errLoad", !.err = TRUE]
                  /\ provNodeMap' = provNodeMap
             ELSE /\ h' = [h EXCEPT !.pc = "diff", !.nodeData = out.nodeData]
                  /\ provNodeMap' = DOMAIN out.nodeData
                  /\ UNCHANGED <<isRefreshing, uiQueue>>
    /\ UNCHANGED <<refreshChan, tickPending, hasError, retry, nFetch>>
    /\ UNCHANGED <<showingDetails, sdStale, errorModal, table, nodeMap, changeLog>>
    /\ UNCHANGED <<cache, trig, tableSource, offThread>>
    /\ UNCHANGED libVars

\* Compare with nil data for every key of the node view's map that the new
\* snapshot lacks.
RemovedNodes(nd) == nodeMap \ DOMAIN nd

\* The state cache after the Compare calls of refreshData's two loops.
RECURSIVE CompareAll(_, _, _)
CompareAll(c, keys, nd) ==
    IF keys = {} THEN c
    ELSE LET k == CHOOSE x \in keys : TRUE
         IN CompareAll(CompareCache(c, k, IF k \in DOMAIN nd THEN nd[k] ELSE NilData),
                       keys \ {k}, nd)

\* The event sequences the two loops of refreshData may pass to AddChange.
RefreshEvents(c, nd) ==
    LET changed == [n \in DOMAIN nd |-> CompareResults(c, n, nd[n])]
        removed == [n \in RemovedNodes(nd) |-> CompareResults(c, n, NilData)]
    IN { a \o b : a \in RangeResults(changed), b \in RangeResults(removed) }

\* "Check for changes and update changelog", "Check for removed nodes":
\* Compare and AddChange run on this goroutine.
HandlerDiff ==
    /\ h.pc = "diff"
    /\ \E evs \in RefreshEvents(cache, h.nodeData) :
          /\ changeLog' = AddChanges(changeLog, evs)
          /\ offThread' = IF evs # << >> THEN offThread \cup {"changeLog"}
                          ELSE offThread
    /\ cache' = CompareAll(cache, (DOMAIN h.nodeData) \cup RemovedNodes(h.nodeData),
                           h.nodeData)
    /\ h' = [h EXCEPT !.pc = "publish", !.compared = TRUE]
    /\ UNCHANGED <<refreshChan, tickPending, isRefreshing, hasError, retry, nFetch>>
    /\ UNCHANGED <<showingDetails, sdStale, uiQueue, errorModal, table, nodeMap>>
    /\ UNCHANGED <<provNodeMap, episode, owed, trig, tableSource>>
    /\ UNCHANGED libVars

\* "Update nodeView's map" on this goroutine,
\* QueueUpdateDraw(func() { a.ui.UpdateTable(nodeData, podsByNode) }),
\* return nil (with the deferred a.isRefreshing.Store(false) and title
\* redraw).
HandlerPublish ==
    /\ h.pc = "publish"
    /\ CanQueue(2)
    /\ nodeMap' = provNodeMap
    /\ offThread' = offThread \cup {"nodeMap"}
    /\ uiQueue' = uiQueue \o << TableUpdate(h.nodeData, h.compared), TitleUpdate >>
    /\ isRefreshing' = FALSE
    /\ h' = HandlerIdle
    /\ UNCHANGED <<refreshChan, tickPending, hasError, retry, nFetch>>
    /\ UNCHANGED <<showingDetails, sdStale, errorModal, table, changeLog>>
    /\ UNCHANGED <<dataVars, episode, owed, trig, tableSource>>
    /\ UNCHANGED libVars

\* if !a.hasError.Load()
HandlerErrLoad ==
    /\ h.pc = "errLoad"
    /\ h' = [h EXCEPT !.pc = IF ~hasError THEN "errStore" ELSE "spawn"]
    /\ UNCHANGED <<refreshChan, tickPending, isRefreshing, hasError, retry, nFetch>>
    /\ UNCHANGED <<uiVars, dataVars, histVars>>
    /\ UNCHANGED libVars

\* a.hasError.Store(true); QueueUpdateDraw(func() { a.ui.ShowErrorMessage() })
HandlerErrStore ==
    /\ h.pc = "errStore"
    /\ CanQueue(1)
    /\ hasError' = TRUE
    /\ uiQueue' = Append(uiQueue, ShowError)
    /\ episode' = [episode EXCEPT !.shows = Min(@ + 1, 2)]
    /\ h' = [h EXCEPT !.pc = "spawn"]
    /\ UNCHANGED <<refreshChan, tickPending, isRefreshing, retry, nFetch>>
    /\ UNCHANGED <<showingDetails, sdStale, errorModal, table, nodeMap, changeLog>>
    /\ UNCHANGED <<dataVars, owed, trig, tableSource, offThread>>
    /\ UNCHANGED libVars

\* go a.retryInBackground(): the goroutine takes the first free slot.
HandlerSpawn ==
    /\ h.pc = "spawn"
    /\ \E r \in RetryIds :
          /\ retry[r].pc = "idle"
          /\ \A q \in RetryIds : q < r => retry[q].pc # "idle"
          /\ retry' = [retry EXCEPT ![r] = [RetryIdle EXCEPT !.pc = "start"]]
    /\ h' = HandlerIdle
    /\ UNCHANGED <<refreshChan, tickPending, isRefreshing, hasError, nFetch>>
    /\ UNCHANGED <<uiVars, dataVars, histVars>>
    /\ UNCHANGED libVars

---------------------------------------------------------------------------
\* App.retryInBackground, goroutine r.

\* if !a.hasError.Load() { return }
RetryStart(r) ==
    /\ retry[r].pc = "start"
    /\ retry' = [retry EXCEPT ![r].pc = IF ~hasError THEN "idle" ELSE "wait"]
    /\ UNCHANGED <<refreshChan, tickPending, isRefreshing, hasError, h, nFetch>>
    /\ UNCHANGED <<uiVars, dataVars, histVars>>
    /\ UNCHANGED libVars

\* A retry tick that goes on to fetch whatever a.hasError holds.
RetryTickUnchecked(r) ==
    /\ retry[r].pc = "wait"
    /\ nFetch < MaxFetches
    /\ nFetch' = nFetch + 1
    /\ retry' = [retry EXCEPT ![r].pc = "fetching"]
    /\ UNCHANGED <<refreshChan, tickPending, isRefreshing, hasError, h>>
    /\ UNCHANGED <<uiVars, dataVars, histVars>>
    /\ UNCHANGED libVars

\* for range retryTicker.C { if !a.hasError.Load() { return }; then
\* provider.UpdateNodeData is called.
RetryTick(r) ==
    /\ retry[r].pc = "wait"
    /\ IF ~hasError
       THEN /\ retry' = [retry EXCEPT ![r] = RetryIdle]
            /\ nFetch' = nFetch
       ELSE /\ nFetch < MaxFetches
            /\ nFetch' = nFetch + 1
            /\ retry' = [retry EXCEPT ![r].pc = "fetching"]
    /\ UNCHANGED <<refreshChan, tickPending, isRefreshing, hasError, h>>
    /\ UNCHANGED <<uiVars, dataVars, histVars>>
    /\ UNCHANGED libVars

\* A retry test that leaves out the dataset check: err == nil alone.
RetrySucceededAnyData(err, nodeData) == ~err

\* err == nil && len(nodeData) > 0
RetrySucceeded(err, nodeData) == ~err /\ Cardinality(DOMAIN nodeData) > 0

\* UpdateNodeData returns to the retry loop, which tests the result: on
\* success with data it goes on to queue the update, otherwise it waits for
\* the next retry tick.
RetryFetchReturn(r) ==
    /\ retry[r].pc = "fetching"
    /\ \E out \in FetchOutcomes :
          /\ retry' = [retry EXCEPT ![r] =
                          [pc |-> IF RetrySucceeded(out.err, out.nodeData)
                                  THEN "queue" ELSE "wait",
                           tried |-> TRUE, err |-> out.err,
                           nodeData |-> out.nodeData]]
          /\ provNodeMap' = IF out.err THEN provNodeMap ELSE DOMAIN out.nodeData
          /\ NoteFetchResult(r, out)
    /\ UNCHANGED <<refreshChan, tickPending, isRefreshing, hasError, h, nFetch>>
    /\ UNCHANGED <<uiVars, cache, trig, tableSource, offThread>>
    /\ UNCHANGED libVars

\* a.ui.app.QueueUpdateDraw(func() { update the node map; UpdateTable;
\* DismissErrorMessage })
RetryQueue(r) ==
    /\ retry[r].pc = "queue"
    /\ CanQueue(1)
    /\ uiQueue' = Append(uiQueue, RetryUpdate(retry[r].nodeData, FALSE))
    /\ retry' = [retry EXCEPT ![r].pc = "clear"]
    /\ UNCHANGED <<refreshChan, tickPending, isRefreshing, hasError, h, nFetch>>
    /\ UNCHANGED <<showingDetails, sdStale, errorModal, table, nodeMap, changeLog>>
    /\ UNCHANGED <<dataVars, histVars>>
    /\ UNCHANGED libVars

\* a.hasError.Store(false); return
RetryClear(r) ==
    /\ retry[r].pc = "clear"
    /\ hasError' = FALSE
    /\ retry' = [retry EXCEPT ![r] = RetryIdle]
    /\ owed' = owed \ {r}
    /\ UNCHANGED <<refreshChan, tickPending, isRefreshing, h, nFetch>>
    /\ UNCHANGED <<uiVars, dataVars, episode, trig, tableSource, offThread>>
    /\ UNCHANGED libVars

---------------------------------------------------------------------------
\* The UI thread (tview's event loop) and the ticker.

\* The event loop runs the oldest queued closure: ShowErrorMessage,
\* UpdateTable, the retry loop's update (node map from the provider's map,
\* UpdateTable, DismissErrorMessage) or the title redraw.
UIRunUpdate ==
    /\ uiQueue # << >>
    /\ LET f == Head(uiQueue)
       IN /\ uiQueue' = Tail(uiQueue)
          /\ errorModal' = CASE f.kind = "show" -> TRUE
                             [] f.kind = "retry" -> FALSE
                             [] OTHER -> errorModal
          /\ table' = IF f.kind \in {"table", "retry"} THEN f.nodeData ELSE table
          /\ tableSource' = IF f.kind \in {"table", "retry"}
                            THEN (IF f.compared THEN "compared" ELSE "uncompared")
                            ELSE tableSource
          /\ nodeMap' = IF f.kind = "retry" THEN provNodeMap ELSE nodeMap
    /\ UNCHANGED <<coordVars, showingDetails, sdStale, changeLog, dataVars>>
    /\ UNCHANGED <<episode, owed, trig, offThread>>
    /\ UNCHANGED libVars

\* A hand-off that queues every trigger instead of dropping it.
TriggerRefreshQueued(chan) == Append(chan, "manual")

\* App.TriggerRefresh: the non-blocking send.
TriggerRefresh(chan) ==
    IF Len(chan) < RefreshChanCap THEN Append(chan, "manual") ELSE chan

\* Key 'r' in the main view (no modal, no details view): TriggerRefresh.
\* A send that succeeds orders the UI thread's earlier writes before the
\* handler's reads.
KeyRefresh ==
    /\ ~errorModal
    /\ ~showingDetails
    /\ refreshChan' = TriggerRefresh(refreshChan)
    /\ sdStale' = IF refreshChan' # refreshChan THEN {} ELSE sdStale
    /\ NoteTrigger(Len(refreshChan) < RefreshChanCap)
    /\ UNCHANGED <<tickPending, isRefreshing, hasError, h, retry, nFetch>>
    /\ UNCHANGED <<showingDetails, uiQueue, errorModal, table, nodeMap, changeLog>>
    /\ UNCHANGED <<dataVars, episode, owed, tableSource, offThread>>
    /\ UNCHANGED libVars

\* a.showingDetails = showing, written by the UI thread.
SetShowingDetails(showing) ==
    /\ showingDetails' = showing
    /\ sdStale' = (sdStale \cup {showingDetails}) \ {showing}

\* Enter on a node row of the main view whose node is in the node map.
KeyEnter ==
    /\ ~errorModal
    /\ ~showingDetails
    /\ (DOMAIN table) \cap nodeMap # {}
    /\ SetShowingDetails(TRUE)
    /\ UNCHANGED <<coordVars, uiQueue, errorModal, table, nodeMap, changeLog>>
    /\ UNCHANGED <<dataVars, histVars>>
    /\ UNCHANGED libVars

\* Esc in the node details view.
KeyEscape ==
    /\ ~errorModal
    /\ showingDetails
    /\ SetShowingDetails(FALSE)
    /\ UNCHANGED <<coordVars, uiQueue, errorModal, table, nodeMap, changeLog>>
    /\ UNCHANGED <<dataVars, histVars>>
    /\ UNCHANGED libVars

\* Key 'c' in the main view: changeLogView.Clear().
KeyClearHistory ==
    /\ ~errorModal
    /\ ~showingDetails
    /\ changeLog # << HeaderRow >>
    /\ changeLog' = Clear(changeLog)
    /\ UNCHANGED <<coordVars, showingDetails, sdStale, uiQueue, errorModal, table, nodeMap>>
    /\ UNCHANGED <<dataVars, histVars>>
    /\ UNCHANGED libVars

\* The 10 s ticker fires; a tick is dropped while one is still unread.
Tick ==
    /\ ~tickPending
    /\ tickPending' = TRUE
    /\ UNCHANGED <<refreshChan, isRefreshing, hasError, h, retry, nFetch>>
    /\ UNCHANGED <<uiVars, dataVars, histVars>>
    /\ UNCHANGED libVars

---------------------------------------------------------------------------

Handler ==
    \/ HandlerTick
    \/ HandlerRecv
    \/ HandlerCheckDetails
    \/ HandlerFetchReturn
    \/ HandlerDiff
    \/ HandlerPublish
    \/ HandlerErrLoad
    \/ HandlerErrStore
    \/ HandlerSpawn

Retry(r) ==
    \/ RetryStart(r)
    \/ RetryTick(r)
    \/ RetryFetchReturn(r)
    \/ RetryQueue(r)
    \/ RetryClear(r)

UIThread ==
    \/ UIRunUpdate
    \/ KeyRefresh
    \/ KeyEnter
    \/ KeyEscape
    \/ KeyClearHistory

Next ==
    \/ Handler
    \/ \E r \in RetryIds : Retry(r)
    \/ UIThread
    \/ Tick

Spec == Init /\ [][Next]_vars

\* Scheduling: a retry goroutine that can take its next step takes it (its
\* ticker fires every 5 s, UpdateNodeData returns), a QueueUpdateDraw that
\* finds room again and again gets through, and tview's event loop runs the
\* closures queued for it.
RetryFairness ==
    \A r \in RetryIds :
        /\ WF_vars(RetryStart(r))
        /\ WF_vars(RetryTick(r))
        /\ WF_vars(RetryFetchReturn(r))
        /\ SF_vars(RetryQueue(r))
        /\ WF_vars(RetryClear(r))

FairSpec == Spec /\ RetryFairness /\ WF_vars(UIRunUpdate)

---------------------------------------------------------------------------
\* StateCache under calls from several goroutines. Each call is the steps
\* sc.mu.Lock() / RLock(), the body, and the deferred Unlock() / RUnlock()
\* at return.

\* A lock that excludes nobody.
CanLockAlways(m) == TRUE

\* sc.mu.Lock() proceeds when no goroutine holds the lock in either mode.
CanLock(m) == m.writer = 0 /\ m.readers = {}

\* sc.mu.RLock() proceeds when no goroutine holds the write lock.
CanRLock(m) == m.writer = 0

StartCall(t, op, k, d) ==
    [callers EXCEPT ![t] = [CallerIdle EXCEPT !.pc = "locked", !.op = op,
                                              !.key = k, !.newData = d]]

\* Put: sc.mu.Lock()
PutLock(t, k, d) ==
    /\ callers[t].pc \in {"idle", "done"}
    /\ CanLock(mu)
    /\ mu' = [mu EXCEPT !.writer = t]
    /\ callers' = StartCall(t, "Put", k, d)
    /\ UNCHANGED <<sc, appVars, filterVars, pureVars>>

\* Put: sc.cache[key] = state; return (Unlock)
PutStore(t) ==
    /\ callers[t].pc = "locked"
    /\ callers[t].op = "Put"
    /\ sc' = Put(sc, callers[t].key, callers[t].newData)
    /\ mu' = [mu EXCEPT !.writer = 0]
    /\ callers' = [callers EXCEPT ![t].pc = "done"]
    /\ UNCHANGED <<appVars, filterVars, pureVars>>

\* Get: sc.mu.RLock()
GetRLock(t, k) ==
    /\ callers[t].pc \in {"idle", "done"}
    /\ CanRLock(mu)
    /\ mu' = [mu EXCEPT !.readers = @ \cup {t}]
    /\ callers' = StartCall(t, "Get", k, NilData)
    /\ UNCHANGED <<sc, appVars, filterVars, pureVars>>

\* Get: state, exists := sc.cache[key]; return state, exists (RUnlock)
GetRead(t) ==
    /\ callers[t].pc = "locked"
    /\ callers[t].op = "Get"
    /\ mu' = [mu EXCEPT !.readers = @ \ {t}]
    /\ callers' = [callers EXCEPT
                     ![t].pc = "done",
                     ![t].exists = callers[t].key \in DOMAIN sc,
                     ![t].old = IF callers[t].key \in DOMAIN sc
                                THEN sc[callers[t].key] ELSE NilData]
    /\ UNCHANGED <<sc, appVars, filterVars, pureVars>>

\* Compare: sc.mu.Lock()
CompareLock(t, k, d) ==
    /\ callers[t].pc \in {"idle", "done"}
    /\ CanLock(mu)
    /\ mu' = [mu EXCEPT !.writer = t]
    /\ callers' = StartCall(t, "Compare", k, d)
    /\ UNCHANGED <<sc, appVars, filterVars, pureVars>>

\* Compare: oldState, exists := sc.cache[key], and the three branches that
\* build `changes`.
CompareRead(t) ==
    /\ callers[t].pc = "locked"
    /\ callers[t].op = "Compare"
    /\ \E evs \in CompareResults(sc, callers[t].key, callers[t].newData) :
          callers' = [callers EXCEPT
                        ![t].pc = "compared",
                        ![t].exists = callers[t].key \in DOMAIN sc,
                        ![t].old = IF callers[t].key \in DOMAIN sc
                                   THEN sc[callers[t].key] ELSE NilData,
                        ![t].events = evs]
    /\ UNCHANGED <<sc, mu, appVars, filterVars, pureVars>>

\* Compare: the cache update, skipped by the early returns, and
\* return changes (Unlock).
CompareUpdate(t) ==
    /\ callers[t].pc = "compared"
    /\ sc' = IF TypeCheckFails(callers[t].exists, callers[t].old, callers[t].newData)
             THEN sc
             ELSE CacheUpdate(sc, callers[t].key, callers[t].newData)
    /\ mu' = [mu EXCEPT !.writer = 0]
    /\ callers' = [callers EXCEPT ![t].pc = "done"]
    /\ UNCHANGED <<appVars, filterVars, pureVars>>

\* The Data values callers share a cache with.
SharedData(k) ==
    { NilData,
      NodeData(k, NodeStatusReady, "v1", "1d", "0", "", << >>, 0),
      NodeData(k, NodeStatusNotReady, "v1", "1d", "0", "", << >>, 0) }

\* One goroutine calling Put, Get and Compare one after the other.
CompareNext ==
    \/ \E k \in CacheKeys : \E d \in CacheData(k) : PutLock(1, k, d)
    \/ PutStore(1)
    \/ \E k \in CacheKeys : GetRLock(1, k)
    \/ GetRead(1)
    \/ \E k \in CacheKeys : \E d \in CacheData(k) : CompareLock(1, k, d)
    \/ CompareRead(1)
    \/ CompareUpdate(1)

\* NewStateCache: the cache starts empty (and the application is at rest).
CacheInit == Init /\ table = EmptySnap

CompareSpec == CacheInit /\ [][CompareNext]_vars

\* Several goroutines calling Put, Get and Compare on one key concurrently.
LockNext ==
    \E t \in Callers :
        \/ \E d \in SharedData("n1") : PutLock(t, "n1", d)
        \/ PutStore(t)
        \/ GetRLock(t, "n1")
        \/ GetRead(t)
        \/ \E d \in SharedData("n1") : CompareLock(t, "n1", d)
        \/ CompareRead(t)
        \/ CompareUpdate(t)

LockSpec == CacheInit /\ [][LockNext]_vars

---------------------------------------------------------------------------
\* The namespace pass of the view filter.

Namespaces == {"default", "kube-system", "dev"}

\* The map[string]bool values main builds from the namespace flags: every
\* namespace named is mapped to true.
NamespaceMaps == UNION { [S -> {TRUE}] : S \in SUBSET Namespaces }

\* m[ns] for a map[string]bool: false when the key is missing.
Lookup(m, ns) == ns \in DOMAIN m /\ m[ns]

\* A namespace pass that ignores the exclude list.
NamespacePassIncludeOnly(include, exclude, ns) ==
    ~(Cardinality(DOMAIN include) > 0 /\ ~Lookup(include, ns))

\* A namespace pass in which an empty include list admits nothing.
NamespacePassNeedsInclude(include, exclude, ns) ==
    ~Lookup(exclude, ns) /\ Lookup(include, ns)

\* A namespace pass in which a non-empty include list is consulted first and
\* decides alone.
NamespacePassIncludeFirst(include, exclude, ns) ==
    IF Cardinality(DOMAIN include) > 0 THEN Lookup(include, ns)
    ELSE ~Lookup(exclude, ns)

\* filterAndTransformData, "Apply namespace filters": the two `continue`
\* tests; TRUE when the pod goes on to the next pass.
NamespacePass(include, exclude, ns) ==
    IF Lookup(exclude, ns) THEN FALSE
    ELSE IF Cardinality(DOMAIN include) > 0 /\ ~Lookup(include, ns) THEN FALSE
    ELSE TRUE

\* ProcessNodeData, second pass over the pods: the two `continue` tests.
ProcessKeepsPod(include, exclude, ns) ==
    IF Lookup(exclude, ns) THEN FALSE
    ELSE IF Cardinality(DOMAIN include) > 0 /\ ~Lookup(include, ns) THEN FALSE
    ELSE TRUE

\* filterAndTransformData decides about a pod of namespace ns.
FilterPod ==
    /\ \E include \in NamespaceMaps, exclude \in NamespaceMaps, ns \in Namespaces :
          /\ fin' = [include |-> include, exclude |-> exclude, ns |-> ns]
          /\ fout' = [by |-> "filterAndTransformData",
                      kept |-> NamespacePass(include, exclude, ns)]
    /\ UNCHANGED <<appVars, cacheVars, pureVars>>

\* ProcessNodeData decides about a pod of namespace ns.
ProcessPod ==
    /\ \E include \in NamespaceMaps, exclude \in NamespaceMaps, ns \in Namespaces :
          /\ fin' = [include |-> include, exclude |-> exclude, ns |-> ns]
          /\ fout' = [by |-> "ProcessNodeData",
                      kept |-> ProcessKeepsPod(include, exclude, ns)]
    /\ UNCHANGED <<appVars, cacheVars, pureVars>>

FilterNext == FilterPod \/ ProcessPod

\* No pod was filtered yet (and the application is at rest).
FilterInit == Init /\ table = EmptySnap

FilterSpec == FilterInit /\ [][FilterNext]_vars

---------------------------------------------------------------------------
\* The view filter: filterAndTransformData and NodeView.GetFilteredData.

\* GetPodInfo, the status and restart count it records for the container
\* named c: those of the first container status of that name.
ContainerInfoOf(pod, c) ==
    LET idx == { i \in 1..Len(pod.ContainerStatuses) : pod.ContainerStatuses[i].Name = c }
    IN  IF idx = {} THEN ContainerInfo(PodStatusUnknown, 0)
        ELSE LET cs == pod.ContainerStatuses[CHOOSE i \in idx : \A j \in idx : i <= j]
             IN  ContainerInfo(
                    IF cs.State = "Running" THEN PodStatusRunning
                    ELSE IF cs.State \in {"Waiting", "Terminated"} THEN cs.Reason
                    ELSE PodStatusUnknown,
                    cs.RestartCount)

RECURSIVE SumRestarts(_, _)
\* GetPodInfo, podInfo.RestartCount: the sum over pod.Spec.Containers.
SumRestarts(pod, containers) ==
    IF containers = << >> THEN 0
    ELSE ContainerInfoOf(pod, Head(containers)).RestartCount
         + SumRestarts(pod, Tail(containers))

\* GetPodInfo. The Namespace field is the one NodeView.GetFilteredData reads
\* (podInfo.Namespace): the pod's namespace.
GetPodInfo(pod) ==
    PodInfo(pod.Name,
            IF pod.Deleting THEN PodStatusTerminating ELSE pod.Phase,
            SumRestarts(pod, pod.Containers),
            [c \in { pod.Containers[i] : i \in 1..Len(pod.Containers) } |->
                ContainerInfoOf(pod, c)])
    @@ [Namespace |-> pod.Namespace]

\* RawNodeData{Node, Pods}
RawNodeData(node, pods) == [Node |-> node, Pods |-> pods]

\* FilterCriteria{IncludeNamespaces, ExcludeNamespaces, SearchQuery}
FilterCriteria(include, exclude, query) ==
    [IncludeNamespaces |-> include, ExcludeNamespaces |-> exclude,
     SearchQuery |-> query]

\* filterAndTransformData, "Initialize node status": the first NodeReady
\* condition decides.
NodeStatusOf(node) ==
    LET idx == { i \in 1..Len(node.Conditions) : node.Conditions[i].Type = "Ready" }
    IN  IF idx = {} THEN NodeStatusNotReady
        ELSE IF node.Conditions[CHOOSE i \in idx : \A j \in idx : i <= j].Status = "True"
             THEN NodeStatusReady
             ELSE NodeStatusNotReady

\* A search pass that compares the name and the query as they are written.
SearchPassCaseSensitive(query, podName) ==
    IF query # << >> THEN Contains(podName, query) ELSE TRUE

\* filterAndTransformData, "Apply search filter if present".
SearchPass(query, podName) ==
    IF query # << >> THEN Contains(ToLower(podName), ToLower(query)) ELSE TRUE

\* A pod count display that always shows the total.
FormatPodCountAlways(filtered, total) ==
    IntToStr(filtered) \o " (" \o IntToStr(total) \o ")"

\* "Set pod count display": "%d" or "%d (%d)".
FormatPodCount(filtered, total) ==
    IF filtered = total THEN IntToStr(filtered)
    ELSE IntToStr(filtered) \o " (" \o IntToStr(total) \o ")"

\* filterAndTransformData, the pods of one node that pass all filters.
FilteredPods(raw, criteria) ==
    { podName \in DOMAIN raw.Pods :
        /\ NamespacePass(criteria.IncludeNamespaces, criteria.ExcludeNamespaces,
                         raw.Pods[podName].Namespace)
        /\ SearchPass(criteria.SearchQuery, podName) }

\* filterAndTransformData, podsByNode[nodeName] when the loop over raw.Pods
\* visits the kept pods in the order podOrder: per namespace, the indicators
\* appended in that order and then sorted.
IndicatorsByNamespace(raw, podOrder) ==
    LET nss == { raw.Pods[podOrder[i]].Namespace : i \in 1..Len(podOrder) }
    IN  [ns \in nss |->
            SortPodIndicators(
                [i \in 1..Len(SelectSeq(podOrder, LAMBDA p : raw.Pods[p].Namespace = ns)) |->
                    GetPodIndicator(raw.Pods[
                        SelectSeq(podOrder, LAMBDA p : raw.Pods[p].Namespace = ns)[i]])])]

\* filterAndTransformData, the body of its loop for one node: the NodeData and
\* the indicator lists it may produce. The range loops over raw.Pods and over
\* podsByNode[nodeName] visit their keys in any order.
NodeResults(nodeName, raw, criteria) ==
    LET kept == FilteredPods(raw, criteria)
    IN  { [data |-> NodeData(nodeName, NodeStatusOf(raw.Node), raw.Node.Version,
                             raw.Node.Age,
                             FormatPodCount(Cardinality(kept), Cardinality(DOMAIN raw.Pods)),
                             Join([i \in 1..Len(nsOrder) |->
                                      Join(IndicatorsByNamespace(raw, podOrder)[nsOrder[i]])]),
                             [p \in kept |-> GetPodInfo(raw.Pods[p])],
                             Cardinality(DOMAIN raw.Pods)),
           indicators |-> IndicatorsByNamespace(raw, podOrder)] :
          podOrder \in Orders(kept),
          nsOrder \in Orders({ raw.Pods[p].Namespace : p \in kept }) }

\* filterAndTransformData: the (nodeData, podsByNode) pairs it may return.
filterAndTransformData(rawData, criteria) ==
    { [nodeData |-> [n \in DOMAIN rawData |-> c[n].data],
       podsByNode |-> [n \in DOMAIN rawData |-> c[n].indicators]] :
        c \in { f \in [DOMAIN rawData ->
                          UNION { NodeResults(n, rawData[n], criteria) : n \in DOMAIN rawData }] :
                  \A n \in DOMAIN rawData : f[n] \in NodeResults(n, rawData[n], criteria) } }

\* ProcessNodeData, "Apply filtering criteria", on the raw data it has built:
\* the initial load has no search query.
ProcessNodeData(rawData, includeNamespaces, excludeNamespaces) ==
    filterAndTransformData(rawData,
        FilterCriteria(includeNamespaces, excludeNamespaces, << >>))

\* NodeView.GetFilteredData, "Filter pod indicators by namespace": for each
\* matching pod of the namespace the inner loop appends the first indicator of
\* the namespace's list and breaks.
FilteredIndicators(nodeData, namespace, indicators, matchingPods) ==
    LET n == Cardinality({ p \in matchingPods : nodeData.Pods[p].Namespace = namespace })
    IN  IF indicators = << >> THEN << >> ELSE [i \in 1..n |-> indicators[1]]

\* NodeView.GetFilteredData on the stored allNodeData and allPodData.
GetFilteredData(allNodeData, allPodData, searchQuery) ==
    IF searchQuery = << >>
    THEN [nodeData |-> allNodeData, podsByNode |-> allPodData]
    ELSE LET q == ToLower(searchQuery)
             matchingPods(n) ==
                 { p \in DOMAIN allNodeData[n].Pods : Contains(ToLower(p), q) }
         IN  [nodeData |->
                [n \in DOMAIN allNodeData |->
                    [allNodeData[n] EXCEPT
                        !.Pods = [p \in matchingPods(n) |-> allNodeData[n].Pods[p]],
                        !.PodCount = FormatPodCount(Cardinality(matchingPods(n)),
                                                    allNodeData[n].TotalPods)]],
              podsByNode |->
                [n \in (DOMAIN allNodeData) \cap (DOMAIN allPodData) |->
                    [ns \in DOMAIN allPodData[n] |->
                        FilteredIndicators(allNodeData[n], ns, allPodData[n][ns],
                                           matchingPods(n))]]]

---------------------------------------------------------------------------
\* Calls of the view filter on raw snapshots.

ProjNamespaces == {"default", "kube-system"}

\* Pod names, written with upper and lower case.
PodNamePool == << <<"a", "b">>, <<"b", "C">>, <<"A", "c">> >>

RawPodNames == { PodNamePool[i] : i \in 1..Min(MaxPods, Len(PodNamePool)) }

PodKinds == {"Failed", "Pending", "Running"}

\* A pod of the given kind: failed with a terminated container, pending
\* without container statuses, or running with its container ready.
MkPod(name, namespace, kind) ==
    CASE kind = "Failed" ->
            Pod(name, namespace, "Failed", FALSE, <<"c1">>,
                <<ContainerStatus("c1", FALSE, 0, "Terminated", "Error")>>)
      [] kind = "Pending" ->
            Pod(name, namespace, "Pending", FALSE, <<"c1">>, << >>)
      [] kind = "Running" ->
            Pod(name, namespace, "Running", FALSE, <<"c1">>,
                <<ContainerStatus("c1", TRUE, 0, "Running", "")>>)

\* The RawNodeData.Pods maps: pod name -> pod of that name.
RawPodMaps ==
    UNION { { [p \in S |-> MkPod(p, c[p][1], c[p][2])] :
                c \in [S -> ProjNamespaces \X PodKinds] } :
            S \in SUBSET RawPodNames }

\* corev1.Node, the fields the program reads; the age is the one
\* FormatDuration gives at the time of the calls.
ReadyNode ==
    [Conditions |-> <<[Type |-> "Ready", Status |-> "True"]>>,
     Version |-> "v1", Age |-> "1d"]

NotReadyNode ==
    [Conditions |-> <<[Type |-> "MemoryPressure", Status |-> "True"],
                      [Type |-> "Ready", Status |-> "False"]>>,
     Version |-> "v1", Age |-> "2d"]

\* The raw snapshots: node n1 with any pods; node n2 absent, without pods, or
\* with one running pod.
RawDatas ==
    { ("n1" :> RawNodeData(ReadyNode, pods)) @@ rest :
        pods \in RawPodMaps,
        rest \in { << >>,
                   "n2" :> RawNodeData(NotReadyNode, << >>),
                   "n2" :> RawNodeData(NotReadyNode,
                              PodNamePool[1] :> MkPod(PodNamePool[1], "default", "Running")) } }

SearchQueries == { << >>, <<"A">>, <<"b", "c">> }

Criterias ==
    { FilterCriteria(include, exclude, query) :
        include \in UNION { [S -> {TRUE}] : S \in SUBSET ProjNamespaces },
        exclude \in UNION { [S -> {TRUE}] : S \in SUBSET ProjNamespaces },
        query \in SearchQueries }

\* One more call of filterAndTransformData with the same raw data and criteria.
FilterAndTransform ==
    /\ call.fn = "project"
    /\ Len(result) < MaxCalls
    /\ \A i \in 1..Len(result) : result[i].by = "filterAndTransformData"
    /\ \E out \in filterAndTransformData(call.rawData, call.criteria) :
          result' = Append(result, [by |-> "filterAndTransformData",
                                    nodeData |-> out.nodeData,
                                    podsByNode |-> out.podsByNode])
    /\ UNCHANGED <<call, appVars, cacheVars, filterVars>>

\* The table's path: ProcessNodeData gives the data UpdateTable stores with
\* SetAllData, and NodeView.GetFilteredData applies the search query to it.
ViewSearch ==
    /\ call.fn = "project"
    /\ result = NoResult
    /\ \E all \in ProcessNodeData(call.rawData, call.criteria.IncludeNamespaces,
                                  call.criteria.ExcludeNamespaces) :
          result' = << [by |-> "GetFilteredData"] @@
                       GetFilteredData(all.nodeData, all.podsByNode,
                                       call.criteria.SearchQuery) >>
    /\ UNCHANGED <<call, appVars, cacheVars, filterVars>>

ProjectNext == FilterAndTransform \/ ViewSearch

\* A raw snapshot and criteria are given; nothing was projected yet.
ProjectInit ==
    /\ AppInit
    /\ table = EmptySnap
    /\ call \in { [fn |-> "project", rawData |-> r, criteria |-> c] :
                    r \in RawDatas, c \in Criterias }
    /\ result = NoResult

ProjectSpec == ProjectInit /\ [][ProjectNext]_vars

---------------------------------------------------------------------------
\* Calls of the indicator classifier and of the indicator sort.

Phases == {"Running", "Pending", "Failed", "Succeeded", "Unknown"}

\* The state of a container and its reason.
ContainerStates ==
    { <<"Running", "">>,
      <<"Waiting", "CrashLoopBackOff">>, <<"Waiting", "Error">>,
      <<"Waiting", "ImagePullBackOff">>, <<"Waiting", "ErrImagePull">>,
      <<"Waiting", "ContainerCreating">>,
      <<"Terminated", "Completed">> }

ContainerStatusValues ==
    { ContainerStatus("c1", ready, restartCount, st[1], st[2]) :
        ready \in BOOLEAN, restartCount \in 0..1, st \in ContainerStates }

\* The pods given to the classifier: any phase, being deleted or not, up to
\* MaxContainers container statuses.
ClassifierPods ==
    { Pod(<<"a", "b">>, "default", phase, deleting,
          [i \in 1..Len(statuses) |-> "c1"], statuses) :
        phase \in Phases, deleting \in BOOLEAN,
        statuses \in UNION { [1..n -> ContainerStatusValues] : n \in 0..MaxContainers } }

\* GetPodIndicator of client.go is called on the pod.
Classify ==
    /\ call.fn = "GetPodIndicator"
    /\ result = NoResult
    /\ result' = << [by |-> "client.go", indicator |-> GetPodIndicator(call.pod)] >>
    /\ UNCHANGED <<call, appVars, cacheVars, filterVars>>

\* The GetPodIndicator that looks at restarts first is called on the pod.
ClassifyRestartsFirst ==
    /\ call.fn = "GetPodIndicator"
    /\ result = NoResult
    /\ result' = << [by |-> "pods.go",
                     indicator |-> GetPodIndicatorRestartsFirst(call.pod)] >>
    /\ UNCHANGED <<call, appVars, cacheVars, filterVars>>

ClassifyNext == Classify \/ ClassifyRestartsFirst

ClassifyInit ==
    /\ AppInit
    /\ table = EmptySnap
    /\ call \in { [fn |-> "GetPodIndicator", pod |-> pod] : pod \in ClassifierPods }
    /\ result = NoResult

ClassifySpec == ClassifyInit /\ [][ClassifyNext]_vars

\* The indicator lists given to the sort.
IndicatorLists ==
    UNION { [1..n -> {PodIndicatorRed, PodIndicatorYellow, PodIndicatorGreen}] :
            n \in 0..MaxIndicators }

\* SortPodIndicators (exchange sort) is called on the list.
SortExchange ==
    /\ call.fn = "SortPodIndicators"
    /\ result = NoResult
    /\ result' = << [by |-> "exchange", sorted |-> SortPodIndicators(call.indicators)] >>
    /\ UNCHANGED <<call, appVars, cacheVars, filterVars>>

\* SortPodIndicators (sort.Slice) is called on the list.
SortSlice ==
    /\ call.fn = "SortPodIndicators"
    /\ result = NoResult
    /\ \E out \in SortPodIndicatorsSlice(call.indicators) :
          result' = << [by |-> "sort.Slice", sorted |-> out] >>
    /\ UNCHANGED <<call, appVars, cacheVars, filterVars>>

SortNext == SortExchange \/ SortSlice

SortInit ==
    /\ AppInit
    /\ table = EmptySnap
    /\ call \in { [fn |-> "SortPodIndicators", indicators |-> l] : l \in IndicatorLists }
    /\ result = NoResult

SortSpec == SortInit /\ [][SortNext]_vars

\* The marks that tell two indicators of one colour apart.
IndicatorMarks == {"a", "b"}

\* Indicator strings of the three colours that differ after the colour tag.
MarkedIndicators ==
    { tag \o <<mark>> : tag \in {ColorTagRed, ColorTagYellow, ColorTagGreen},
                        mark \in IndicatorMarks }

\* The lists of marked indicators given to the sort.
MarkedIndicatorLists ==
    UNION { [1..n -> MarkedIndicators] : n \in 0..MaxIndicators }

MarkedSortInit ==
    /\ AppInit
    /\ table = EmptySnap
    /\ call \in { [fn |-> "SortPodIndicators", indicators |-> l] : l \in MarkedIndicatorLists }
    /\ result = NoResult

MarkedSortSpec == MarkedSortInit /\ [][SortNext]_vars

---------------------------------------------------------------------------
\* The change log on its own: AddChange and Clear in any order. call counts
\* the AddChange calls made, result holds the events handed to AddChange
\* since the last Clear, oldest first.

\* The n-th event handed to the change log (events differ in their name).
NthEvent(n) == ChangeEvent("Node", IntToStr(n), "Added", "", NilVal, NilVal)

\* cv.AddChange(change)
LogAddChange ==
    /\ call.fn = "ChangeLog"
    /\ call.added < MaxAdds
    /\ changeLog' = AddChange(changeLog, NthEvent(call.added + 1))
    /\ result' = Append(result, NthEvent(call.added + 1))
    /\ call' = [call EXCEPT !.added = @ + 1]
    /\ UNCHANGED <<coordVars, showingDetails, sdStale, uiQueue, errorModal, table, nodeMap>>
    /\ UNCHANGED <<dataVars, histVars, cacheVars, filterVars>>

\* cv.Clear()
LogClear ==
    /\ call.fn = "ChangeLog"
    /\ changeLog' = Clear(changeLog)
    /\ result' = << >>
    /\ UNCHANGED <<coordVars, showingDetails, sdStale, uiQueue, errorModal, table, nodeMap>>
    /\ UNCHANGED <<dataVars, histVars, cacheVars, filterVars, call>>

ChangeLogNext == LogAddChange \/ LogClear

ChangeLogInit ==
    /\ AppInit
    /\ table = EmptySnap
    /\ call = [fn |-> "ChangeLog", added |-> 0]
    /\ result = << >>

ChangeLogSpec == ChangeLogInit /\ [][ChangeLogNext]_vars

---------------------------------------------------------------------------
\* The first refresh after the initial load, on snapshots with pods and
\* containers: App.Run's initial load, then one refreshData whose
\* UpdateNodeData succeeds.

\* The snapshots the initial load and the refresh may return: every map from
\* a set of cache keys to node values.
LoadSnapshots ==
    UNION { { s \in [S -> UNION { CacheData(k) : k \in S }] :
                \A k \in S : s[k] \in CacheData(k) /\ IsNodeData(s[k]) } :
            S \in SUBSET CacheKeys }

\* refreshData with a successful UpdateNodeData: the Compare calls and
\* AddChange for the nodes of the new snapshot and for the removed nodes, the
\* node view's map replaced by the provider's, UpdateTable.
FirstRefresh ==
    /\ call.fn = "refreshData"
    /\ result = NoResult
    /\ \E nd \in LoadSnapshots :
          /\ \E evs \in RefreshEvents(cache, nd) :
                /\ changeLog' = AddChanges(changeLog, evs)
                /\ result' = << [nodeData |-> nd, events |-> evs] >>
          /\ cache' = CompareAll(cache, (DOMAIN nd) \cup RemovedNodes(nd), nd)
          /\ provNodeMap' = DOMAIN nd
          /\ nodeMap' = DOMAIN nd
          /\ table' = nd
    /\ tableSource' = "compared"
    /\ nFetch' = nFetch + 1
    /\ UNCHANGED <<refreshChan, tickPending, isRefreshing, hasError, h, retry>>
    /\ UNCHANGED <<showingDetails, sdStale, uiQueue, errorModal>>
    /\ UNCHANGED <<episode, owed, trig, offThread, cacheVars, filterVars, call>>

FirstRefreshInit ==
    \E s0 \in LoadSnapshots :
        /\ AppInitWith(s0)
        /\ call = [fn |-> "refreshData", initial |-> s0]
        /\ result = NoResult

FirstRefreshSpec == FirstRefreshInit /\ [][FirstRefresh]_vars

---------------------------------------------------------------------------
\* Properties.

\* C1: single-flight. At no time are two calls of provider.UpdateNodeData in
\* flight, whatever the interleaving of ticks, manual triggers and retry
\* loops.
C1_SingleFlight == Cardinality(InFlight) <= 1

\* C2: polling never stops. The refresh handler goroutine never blocks
\* forever: it is never parked in the send of a tick into refreshChan (it is
\* the channel's only receiver, so a send that blocks never completes and no
\* later tick is followed by a refresh attempt).
C2_HandlerNeverBlocks == h.pc # "blocked"

\* C3: the error signal is raised exactly once per failure episode. Whenever
\* fetches have failed since the last success with data, and the handler is
\* not in the middle of deciding about the signal, exactly one
\* ShowErrorMessage has been queued in the episode.
C3_OneErrorSignalPerEpisode ==
    (episode.failed /\ h.pc \notin {"errLoad", "errStore"}) => episode.shows = 1

\* C4: the first fetch that succeeds with data after a signalled failure
\* episode produces the error-cleared signal, whichever worker ran it: a
\* worker that owes the signal is still on its way to give it (the handler
\* has not finished its refresh, the retry loop has not returned).
C4_SuccessClearsError ==
    /\ 0 \in owed => h.pc \in {"diff", "publish"}
    /\ \A r \in owed \ {0} : retry[r].pc \in {"queue", "clear"}

\* C5: the error state is cleared only by a fetch that returned no error and
\* a non-empty dataset. hasError is reset only by a retry loop whose fetch
\* returned no error and data, every queued dismissal carries a non-empty
\* snapshot, the error modal is removed only by such a closure, and a retry
\* whose fetch returns an error or zero nodes leaves hasError, the UI queue,
\* the table and the modal as they are and waits for the next retry tick.
C5_ClearedOnlyBySuccessWithData ==
    /\ [](\A i \in 1..Len(uiQueue) :
             uiQueue[i].kind = "retry" => uiQueue[i].nodeData # EmptySnap)
    /\ [][ /\ (hasError /\ ~hasError') =>
                  \E r \in RetryIds :
                      /\ retry[r].pc = "clear"
                      /\ retry'[r].pc = "idle"
                      /\ ~retry[r].err
                      /\ retry[r].nodeData # EmptySnap
           /\ (errorModal /\ ~errorModal') =>
                  /\ uiQueue # << >>
                  /\ Head(uiQueue).kind = "retry"
           /\ \A r \in RetryIds :
                  ( /\ retry[r].pc = "fetching"
                    /\ retry'[r].pc # "fetching"
                    /\ (retry'[r].err \/ retry'[r].nodeData = EmptySnap) )
                  => /\ retry'[r].pc = "wait"
                     /\ hasError' = hasError
                     /\ uiQueue' = uiQueue
                     /\ table' = table
                     /\ errorModal' = errorModal
         ]_vars

\* A retry loop whose fetch returned successfully with zero nodes is waiting
\* for its next tick with the error flag still set.
C5_EmptySuccessKeepsError ==
    \E r \in RetryIds :
        /\ retry[r].pc = "wait"
        /\ retry[r].tried
        /\ ~retry[r].err
        /\ retry[r].nodeData = EmptySnap
        /\ hasError

\* C6: every fetch error of the handler is retried until a fetch succeeds.
\* After a failed tick or manual fetch, once the handler has dealt with the
\* failure and until a later fetch succeeds with data, the error flag is set
\* and a retry loop is running.
C6_FailureKeepsRetrying ==
    (episode.handlerFailed /\ h.pc \notin {"errLoad", "errStore", "spawn"})
        => (hasError /\ \E r \in RetryIds : retry[r].pc # "idle")

C8_SuppressTicksNotTriggers ==
    [][ (h.pc = "check" /\ h'.pc # "check") =>
            IF h.src = "manual"
            THEN h'.pc = "fetching"
            ELSE showingDetails => h'.pc # "fetching"
      ]_vars

\* C9: a snapshot is shown in the table only after it went through
\* StateCache.Compare and its events were appended to the change log, for
\* the tick, the manual trigger and the retry loop alike.
C9_ComparedBeforeShown ==
    /\ tableSource # "uncompared"
    /\ \A i \in 1..Len(uiQueue) :
           uiQueue[i].kind \in {"table", "retry"} => uiQueue[i].compared

\* C10: the refresh handler and the retry loops never mutate the change-log
\* table or the node view's node map themselves; every such mutation runs on
\* the UI thread.
C10_WorkersNeverMutateUIState == offThread = {}

\* The closures of the UI queue that redraw the node table.
TableUpdates(q) == SelectSeq(q, LAMBDA f : f.kind \in {"table", "retry"})

\* C11: a failed fetch is never used. The step in which UpdateNodeData
\* returns an error to refreshData, every later step of that refresh, and
\* the step in which it returns an error to a retry loop leave the state
\* cache, the change log, the node view's node map and the table unchanged
\* and queue no table update.
C11_FailedFetchNotUsed ==
    [][ ( \/ ((h.err \/ h'.err) /\ h' # h)
          \/ \E r \in RetryIds : /\ retry[r].pc = "fetching"
                                 /\ retry'[r].pc # "fetching"
                                 /\ retry'[r].err )
        => /\ cache' = cache
           /\ changeLog' = changeLog
           /\ nodeMap' = nodeMap
           /\ table' = table
           /\ TableUpdates(uiQueue') = TableUpdates(uiQueue)
      ]_vars

\* A refresh whose fetch failed has raised the error and is about to start
\* the retry loop, with a non-empty cache and table.
C11_FailedRefreshHandled ==
    /\ h.pc = "spawn"
    /\ h.err
    /\ cache # EmptySnap
    /\ table # EmptySnap

\* The single caller of CompareSpec has returned from a Compare call.
CompareDone == callers[1].pc = "done" /\ callers[1].op = "Compare"

C13_RemovedAndDeleted ==
    (CompareDone /\ callers[1].exists /\ callers[1].old # NilData
                 /\ callers[1].newData = NilData) =>
        LET c == callers[1]
        IN /\ Len(c.events) = 1
           /\ c.events[1].ResourceType = "Node"
           /\ c.events[1].ChangeType = "Removed"
           /\ c.events[1].ResourceName = c.key
           /\ c.events[1].OldValue = NodeVal(c.old)
           /\ c.key \notin DOMAIN sc
           /\ \A s2 \in CacheData(c.key) \ {NilData} :
                  \A evs \in CompareResults(sc, c.key, s2) :
                      /\ Len(evs) = 1
                      /\ evs[1].ChangeType = "Added"

\* Compare with nil data has returned for a key that held a node with pods.
C13_RemovedNodeWithPods ==
    /\ CompareDone
    /\ callers[1].exists
    /\ callers[1].newData = NilData
    /\ callers[1].old.kind = "NodeData"
    /\ DOMAIN callers[1].old.Pods = PodNames
    /\ callers[1].key \notin DOMAIN sc

\* C14: after every Compare with non-nil data the cache entry of the key
\* equals the new state, also when no event was emitted and when a type
\* check on the stored or the new data failed.
C14_CacheTracksLatest ==
    (CompareDone /\ callers[1].newData # NilData) =>
        /\ callers[1].key \in DOMAIN sc
        /\ sc[callers[1].key] = callers[1].newData

\* Compare has returned for a key whose stored and new data are both
\* NodeData (the node persists).
Persisting ==
    /\ CompareDone
    /\ callers[1].exists
    /\ callers[1].old.kind = "NodeData"
    /\ callers[1].newData.kind = "NodeData"

\* The events of a sequence for one resource.
EventsOf(evs, rtype, name) ==
    SelectSeq(evs, LAMBDA e : e.ResourceType = rtype /\ e.ResourceName = name)

\* For field f of two records: exactly one Modified event of that field,
\* with the old and the new value, when the values differ, none otherwise.
OneModifiedIfDiffers(evs, f, oldVal, newVal) ==
    LET fe == SelectSeq(evs, LAMBDA e : e.Field = f)
    IN IF oldVal # newVal
       THEN /\ Len(fe) = 1
            /\ fe[1].ChangeType = "Modified"
            /\ fe[1].OldValue = oldVal
            /\ fe[1].NewValue = newVal
       ELSE Len(fe) = 0

\* C15: for a persisting node Compare emits exactly one Node Modified event,
\* with old and new value, for each of Status, Version and PodCount that
\* differs, and no Node event for any other field.
C15_NodeFieldEvents ==
    Persisting =>
        LET c == callers[1]
            nodeEvs == SelectSeq(c.events, LAMBDA e : e.ResourceType = "Node")
        IN /\ \A i \in 1..Len(nodeEvs) :
                  /\ nodeEvs[i].ResourceName = c.key
                  /\ nodeEvs[i].ChangeType = "Modified"
                  /\ nodeEvs[i].Field \in {"Status", "Version", "PodCount"}
           /\ \A f \in {"Status", "Version", "PodCount"} :
                  OneModifiedIfDiffers(nodeEvs, f, StrVal(c.old[f]),
                                       StrVal(c.newData[f]))

\* Only readiness flipped from ready to not ready among the compared fields
\* (Age, PodIndicators and TotalPods changed too) and Compare returned
\* exactly one event.
C15_ReadinessFlipOnly ==
    /\ Persisting
    /\ callers[1].old.Status = NodeStatusReady
    /\ callers[1].newData.Status = NodeStatusNotReady
    /\ callers[1].old.Version = callers[1].newData.Version
    /\ callers[1].old.PodCount = callers[1].newData.PodCount
    /\ callers[1].old.Age # callers[1].newData.Age
    /\ callers[1].old.PodIndicators # callers[1].newData.PodIndicators
    /\ callers[1].old.TotalPods # callers[1].newData.TotalPods
    /\ Len(callers[1].events) = 1

\* The events about pod p of node key and about its containers.
AboutPod(evs, key, p) ==
    SelectSeq(evs, LAMBDA e :
        \/ e.ResourceName = PodKey(key, p)
        \/ \E cn \in ContainerNames : e.ResourceName = ContainerKey(key, p, cn))

\* C16: for a persisting node Compare emits exactly one Pod Added event
\* named "node/pod" for each pod only in the new state, exactly one Pod
\* Removed event for each pod only in the old state, and no event for a pod
\* present in both and unchanged.
C16_PodAddedRemoved ==
    Persisting =>
        LET c == callers[1]
            O == DOMAIN c.old.Pods
            N == DOMAIN c.newData.Pods
        IN /\ \A p \in N \ O :
                  /\ Len(AboutPod(c.events, c.key, p)) = 1
                  /\ AboutPod(c.events, c.key, p)[1].ResourceType = "Pod"
                  /\ AboutPod(c.events, c.key, p)[1].ResourceName = PodKey(c.key, p)
                  /\ AboutPod(c.events, c.key, p)[1].ChangeType = "Added"
           /\ \A p \in O \ N :
                  /\ Len(AboutPod(c.events, c.key, p)) = 1
                  /\ AboutPod(c.events, c.key, p)[1].ResourceType = "Pod"
                  /\ AboutPod(c.events, c.key, p)[1].ResourceName = PodKey(c.key, p)
                  /\ AboutPod(c.events, c.key, p)[1].ChangeType = "Removed"
           /\ \A p \in O \cap N :
                  c.old.Pods[p] = c.newData.Pods[p]
                      => Len(AboutPod(c.events, c.key, p)) = 0

\* Pods {p1} became {p1, p2} with p1 unchanged, and Compare returned exactly
\* one event.
C16_OnePodAdded ==
    /\ Persisting
    /\ DOMAIN callers[1].old.Pods = {"p1"}
    /\ DOMAIN callers[1].newData.Pods = {"p1", "p2"}
    /\ callers[1].old.Pods["p1"] = callers[1].newData.Pods["p1"]
    /\ Len(callers[1].events) = 1
    /\ callers[1].events[1].ResourceName = "n1/p2"

\* C17: for a pod present in both states Compare emits one Pod Modified
\* event per differing field among Status and RestartCount; for each of its
\* containers one Container Added or Removed event when the container is on
\* one side only, and one Container Modified event per differing field among
\* Status and RestartCount when it is on both. A pod that is itself added
\* or removed yields no container event.
C17_PodAndContainerEvents ==
    Persisting =>
        LET c == callers[1]
            O == DOMAIN c.old.Pods
            N == DOMAIN c.newData.Pods
        IN /\ \A p \in O \cap N :
                  LET oldPod == c.old.Pods[p]
                      newPod == c.newData.Pods[p]
                      podEvs == EventsOf(c.events, "Pod", PodKey(c.key, p))
                  IN /\ \A i \in 1..Len(podEvs) :
                            podEvs[i].Field \in {"Status", "RestartCount"}
                     /\ OneModifiedIfDiffers(podEvs, "Status",
                            StrVal(oldPod.Status), StrVal(newPod.Status))
                     /\ OneModifiedIfDiffers(podEvs, "RestartCount",
                            IntVal(oldPod.RestartCount), IntVal(newPod.RestartCount))
                     /\ \A cn \in ContainerNames :
                            LET cEvs == EventsOf(c.events, "Container",
                                                 ContainerKey(c.key, p, cn))
                                inOld == cn \in DOMAIN oldPod.ContainerInfo
                                inNew == cn \in DOMAIN newPod.ContainerInfo
                            IN CASE inNew /\ ~inOld ->
                                      Len(cEvs) = 1 /\ cEvs[1].ChangeType = "Added"
                                 [] inOld /\ ~inNew ->
                                      Len(cEvs) = 1 /\ cEvs[1].ChangeType = "Removed"
                                 [] inOld /\ inNew ->
                                      /\ \A i \in 1..Len(cEvs) :
                                             cEvs[i].Field \in {"Status", "RestartCount"}
                                      /\ OneModifiedIfDiffers(cEvs, "Status",
                                             StrVal(oldPod.ContainerInfo[cn].Status),
                                             StrVal(newPod.ContainerInfo[cn].Status))
                                      /\ OneModifiedIfDiffers(cEvs, "RestartCount",
                                             IntVal(oldPod.ContainerInfo[cn].RestartCount),
                                             IntVal(newPod.ContainerInfo[cn].RestartCount))
                                 [] OTHER -> Len(cEvs) = 0
           /\ \A p \in (O \ N) \cup (N \ O) :
                  \A cn \in ContainerNames :
                      Len(EventsOf(c.events, "Container",
                                   ContainerKey(c.key, p, cn))) = 0

\* Pod p1 persisted with a restart of the pod and of its container, and pod
\* p2, which has a container, was added: Compare returned a Pod Modified and
\* a Container Modified event for p1 and no container event for p2.
C17_RestartedPodAndContainer ==
    /\ Persisting
    /\ DOMAIN callers[1].old.Pods = {"p1"}
    /\ DOMAIN callers[1].newData.Pods = {"p1", "p2"}
    /\ callers[1].old.Pods["p1"].RestartCount = 0
    /\ callers[1].newData.Pods["p1"].RestartCount = 1
    /\ callers[1].newData.Pods["p2"].ContainerInfo # << >>
    /\ Len(EventsOf(callers[1].events, "Pod", "n1/p1")) = 1
    /\ Len(EventsOf(callers[1].events, "Container", "n1/p1/c1")) = 1
    /\ Len(callers[1].events) = 3

\* C18: Compare is deterministic in its output order. When a Compare call
\* has built its events, they are the only sequence the call can return for
\* that cached state and new state.
C18_DeterministicOrder ==
    (callers[1].pc = "compared") =>
        CompareResults(sc, callers[1].key, callers[1].newData)
            = { callers[1].events }

\* Callers inside the body of a Put or Compare, and inside the body of a Get.
Writing == { t \in Callers : callers[t].pc \in {"locked", "compared"}
                              /\ callers[t].op \in {"Put", "Compare"} }

Reading == { t \in Callers : callers[t].pc = "locked" /\ callers[t].op = "Get" }

\* C19: compare-and-update is atomic. At most one caller is inside Put or
\* Compare, and none while a Get reads; between its comparison and its cache
\* replacement a Compare sees the cache exactly as it compared it; and the
\* replacement step leaves the cache, and returns the events, that Compare
\* gives when run alone on the cache of that moment, so every execution
\* equals the sequential order of those steps.
C19_CompareUpdateAtomic ==
    /\ [](/\ Cardinality(Writing) <= 1
          /\ (Writing # {} => Reading = {})
          /\ \A t \in Callers :
                 callers[t].pc = "compared" =>
                     /\ callers[t].exists = (callers[t].key \in DOMAIN sc)
                     /\ callers[t].exists => callers[t].old = sc[callers[t].key]
                     /\ callers[t].events \in
                            CompareResults(sc, callers[t].key, callers[t].newData))
    /\ [][ \A t \in Callers :
               (callers[t].pc = "compared" /\ callers'[t].pc = "done") =>
                   /\ sc' = CompareCache(sc, callers[t].key, callers[t].newData)
                   /\ callers'[t].events \in
                          CompareResults(sc, callers[t].key, callers[t].newData)
         ]_vars

\* One caller is between the comparison and the cache replacement of a
\* Compare on a key that another caller's completed Compare stored.
C19_CompareAfterCompare ==
    /\ callers[1].pc = "compared"
    /\ callers[1].exists
    /\ callers[2].pc = "done"
    /\ callers[2].op = "Compare"
    /\ callers[2].newData = callers[1].old

\* C20: namespace pass. A pod is kept iff its namespace is not in
\* excludeNamespaces and includeNamespaces is empty or holds its namespace.
C20_NamespacePass ==
    (fout.by # "none") =>
        ( fout.kept <=> ( /\ fin.ns \notin DOMAIN fin.exclude
                          /\ \/ DOMAIN fin.include = {}
                             \/ fin.ns \in DOMAIN fin.include ) )

\* filterAndTransformData dropped a pod that is not excluded, because the
\* include list is not empty and lacks its namespace.
C20_DroppedByInclude ==
    /\ fout.by = "filterAndTransformData"
    /\ ~fout.kept
    /\ fin.ns \notin DOMAIN fin.exclude
    /\ DOMAIN fin.include # {}
    /\ fin.ns \notin DOMAIN fin.include

\* C21: when includeNamespaces is non-empty and a namespace is in both
\* includeNamespaces and excludeNamespaces, include wins: the pods of that
\* namespace are kept.
C21_IncludeWins ==
    ( /\ fout.by # "none"
      /\ fin.ns \in DOMAIN fin.include
      /\ fin.ns \in DOMAIN fin.exclude ) => fout.kept

\* C21, as the code has it: a namespace that is in both lists is excluded;
\* membership in includeNamespaces never re-admits a pod of an excluded
\* namespace.
C21_ExcludeWins ==
    ( /\ fout.by # "none"
      /\ fin.ns \in DOMAIN fin.include
      /\ fin.ns \in DOMAIN fin.exclude ) => ~fout.kept

\* filterAndTransformData dropped a pod whose namespace is in both lists.
C21_DroppedThoughIncluded ==
    /\ fout.by = "filterAndTransformData"
    /\ fin.ns \in DOMAIN fin.include
    /\ fin.ns \in DOMAIN fin.exclude
    /\ ~fout.kept

\* The results of the view filter's calls, and what the criteria say.
Results == { result[i] : i \in 1..Len(result) }

RawPodsOf(n) == call.rawData[n].Pods

\* The namespace pass as the criteria state it.
NamespaceKept(ns) ==
    /\ ns \notin DOMAIN call.criteria.ExcludeNamespaces
    /\ \/ DOMAIN call.criteria.IncludeNamespaces = {}
       \/ ns \in DOMAIN call.criteria.IncludeNamespaces

\* a and b are the same letter, in upper or in lower case.
SameLetter(a, b) ==
    \/ a = b
    \/ {a, b} \in { {"a", "A"}, {"b", "B"}, {"c", "C"} }

\* sub is a case-insensitive substring of str.
CaseInsensitiveSubstring(sub, str) ==
    \E i \in 0..(Len(str) - Len(sub)) :
        \A j \in 1..Len(sub) : SameLetter(str[i + j], sub[j])

\* The pods of node n the criteria keep.
KeptPods(n) ==
    { p \in DOMAIN RawPodsOf(n) :
        /\ NamespaceKept(RawPodsOf(n)[p].Namespace)
        /\ \/ call.criteria.SearchQuery = << >>
           \/ CaseInsensitiveSubstring(call.criteria.SearchQuery, p) }

\* C22: search pass. A pod is kept iff it passes the namespace pass and the
\* search query is empty or a case-insensitive substring of the pod name; the
\* search never re-admits a pod the namespace pass rejected.
C22_SearchPass ==
    (call.fn = "project") =>
        \A r \in Results : \A n \in DOMAIN call.rawData :
            DOMAIN r.nodeData[n].Pods = KeptPods(n)

\* The table's path searched for "A": the pod "ab" is kept, the pod "bC", of a
\* namespace that passes, is dropped.
C22_SearchKeepsMatchingPod ==
    /\ call.fn = "project"
    /\ call.criteria.SearchQuery = <<"A">>
    /\ \E r \in Results :
          /\ r.by = "GetFilteredData"
          /\ <<"a", "b">> \in DOMAIN r.nodeData["n1"].Pods
          /\ <<"b", "C">> \in DOMAIN RawPodsOf("n1")
          /\ NamespaceKept(RawPodsOf("n1")[<<"b", "C">>].Namespace)
          /\ <<"b", "C">> \notin DOMAIN r.nodeData["n1"].Pods

\* "<filtered>" or "<filtered> (<total>)".
PodCountDisplay(filtered, total) ==
    IF filtered = total THEN IntToStr(filtered)
    ELSE IntToStr(filtered) \o " (" \o IntToStr(total) \o ")"

\* C23: for every node the pod-count display is "<filtered>" when the number
\* of pods kept equals the node's total pod count and "<filtered> (<total>)"
\* otherwise; total is the node's unfiltered pod count, whatever the namespace
\* filter and the search.
C23_PodCountDisplay ==
    (call.fn = "project") =>
        \A r \in Results : \A n \in DOMAIN call.rawData :
            /\ r.nodeData[n].TotalPods = Cardinality(DOMAIN RawPodsOf(n))
            /\ r.nodeData[n].PodCount =
                  PodCountDisplay(Cardinality(KeptPods(n)),
                                  Cardinality(DOMAIN RawPodsOf(n)))

\* A search on the table's path left one of the two pods of n1: "1 (2)"; n2,
\* whose only pod does not match, shows "0 (1)".
C23_OneOfTwoShown ==
    /\ call.fn = "project"
    /\ call.criteria.SearchQuery # << >>
    /\ \E r \in Results :
          /\ r.by = "GetFilteredData"
          /\ r.nodeData["n1"].PodCount = "1 (2)"
          /\ "n2" \in DOMAIN r.nodeData
          /\ r.nodeData["n2"].PodCount = "0 (1)"

\* How often the indicator ind occurs in the list.
Occurrences(list, ind) == Cardinality({ i \in 1..Len(list) : list[i] = ind })

\* 0 for Error, 1 for Warning, 2 for OK.
Severity(ind) ==
    CASE ind = PodIndicatorRed -> 0
      [] ind = PodIndicatorYellow -> 1
      [] ind = PodIndicatorGreen -> 2

\* The list is in Error, Warning, OK order.
InSeverityOrder(list) ==
    \A i, j \in 1..Len(list) : i < j => Severity(list[i]) <= Severity(list[j])

\* The indicator list a result shows for node n and namespace ns.
ShownIndicators(r, n, ns) ==
    IF n \in DOMAIN r.podsByNode /\ ns \in DOMAIN r.podsByNode[n]
    THEN r.podsByNode[n][ns] ELSE << >>

\* C24: the indicator list of each (node, namespace) holds exactly one
\* indicator per pod of that namespace kept by the filter, each being that
\* pod's own classifier result, in Error/Warning/OK order, also under a
\* non-empty search query.
C24_OwnIndicatorPerKeptPod ==
    (call.fn = "project") =>
        \A r \in Results : \A n \in DOMAIN call.rawData : \A ns \in ProjNamespaces :
            /\ InSeverityOrder(ShownIndicators(r, n, ns))
            /\ \A ind \in {PodIndicatorRed, PodIndicatorYellow, PodIndicatorGreen} :
                  Occurrences(ShownIndicators(r, n, ns), ind) =
                      Cardinality({ p \in KeptPods(n) :
                                      /\ RawPodsOf(n)[p].Namespace = ns
                                      /\ GetPodIndicator(RawPodsOf(n)[p]) = ind })

\* C25: the projection is pure and idempotent: filterAndTransformData leaves
\* its raw snapshot argument as it was, and two calls with the same snapshot
\* and criteria return equal results, PodCount and PodIndicators strings and
\* the indicator lists included.
C25_SameArgumentsSameResult ==
    (call.fn = "project") =>
        \A r1, r2 \in Results :
            (r1.by = "filterAndTransformData" /\ r2.by = "filterAndTransformData")
                => r1 = r2

\* C26: identity filter. With empty criteria every node and every pod of
\* every node is kept, and each pod count is shown without a parenthesised
\* total.
C26_IdentityFilter ==
    ( /\ call.fn = "project"
      /\ call.criteria = FilterCriteria(<< >>, << >>, << >>) ) =>
        \A r \in Results :
            /\ DOMAIN r.nodeData = DOMAIN call.rawData
            /\ \A n \in DOMAIN call.rawData :
                  /\ DOMAIN r.nodeData[n].Pods = DOMAIN RawPodsOf(n)
                  /\ r.nodeData[n].PodCount = IntToStr(Cardinality(DOMAIN RawPodsOf(n)))

\* filterAndTransformData was called with empty criteria on a snapshot of two
\* nodes, one of them with two pods.
C26_TwoNodesAllPodsKept ==
    /\ call.fn = "project"
    /\ call.criteria = FilterCriteria(<< >>, << >>, << >>)
    /\ DOMAIN call.rawData = {"n1", "n2"}
    /\ Cardinality(DOMAIN RawPodsOf("n1")) = 2
    /\ \E r \in Results :
          /\ r.by = "filterAndTransformData"
          /\ r.nodeData["n1"].PodCount = "2"

\* Some container of the pod waits with one of the fatal reasons.
FatalWaiting(pod) ==
    \E i \in 1..Len(pod.ContainerStatuses) :
        /\ pod.ContainerStatuses[i].State = "Waiting"
        /\ pod.ContainerStatuses[i].Reason \in
              {"CrashLoopBackOff", "Error", "ImagePullBackOff", "ErrImagePull"}

\* The pod restarted, is pending or terminating, or has a container that is
\* not running.
WarningCondition(pod) ==
    \/ \E i \in 1..Len(pod.ContainerStatuses) : pod.ContainerStatuses[i].RestartCount > 0
    \/ pod.Phase = "Pending"
    \/ pod.Deleting
    \/ \E i \in 1..Len(pod.ContainerStatuses) : pod.ContainerStatuses[i].State # "Running"

\* C27: a pod whose phase is Failed is always classified Error (red),
\* whatever its restart counts and container states.
C27_FailedIsError ==
    (call.fn = "GetPodIndicator" /\ call.pod.Phase = "Failed") =>
        \A r \in Results : r.indicator = PodIndicatorRed

\* C28: a pod with any container waiting for CrashLoopBackOff, Error,
\* ImagePullBackOff or ErrImagePull is classified Error, also when it meets a
\* Warning condition (phase Pending, restarts, an earlier container that is not
\* running).
C28_FatalWaitingIsError ==
    (call.fn = "GetPodIndicator" /\ FatalWaiting(call.pod)) =>
        \A r \in Results : r.indicator = PodIndicatorRed

\* C29: a pod matching neither Error rule is classified Warning iff it
\* restarted, or its phase is Pending or Terminating, or some container is not
\* running; a pod matching none of these is classified OK.
C29_WarningOrOK ==
    ( /\ call.fn = "GetPodIndicator"
      /\ call.pod.Phase # "Failed"
      /\ ~FatalWaiting(call.pod) ) =>
        \A r \in Results :
            r.indicator = IF WarningCondition(call.pod) THEN PodIndicatorYellow
                          ELSE PodIndicatorGreen

\* C30: SortPodIndicators returns a permutation of its input in which every
\* Error indicator precedes every Warning indicator and every Warning
\* precedes every OK indicator.
C30_SortedPermutation ==
    (call.fn = "SortPodIndicators") =>
        \A r \in Results :
            /\ Len(r.sorted) = Len(call.indicators)
            /\ \A ind \in {PodIndicatorRed, PodIndicatorYellow, PodIndicatorGreen} :
                  Occurrences(r.sorted, ind) = Occurrences(call.indicators, ind)
            /\ InSeverityOrder(r.sorted)

\* The exchange sort was given [OK, Error, Warning, OK] and returned
\* [Error, Warning, OK, OK].
C30_SortedMixedList ==
    /\ call.fn = "SortPodIndicators"
    /\ call.indicators = <<PodIndicatorGreen, PodIndicatorRed,
                           PodIndicatorYellow, PodIndicatorGreen>>
    /\ \E r \in Results :
          /\ r.by = "exchange"
          /\ r.sorted = <<PodIndicatorRed, PodIndicatorYellow,
                          PodIndicatorGreen, PodIndicatorGreen>>

\* 0, 1 or 2 for an indicator that starts with the red, yellow or green tag.
TagSeverity(ind) ==
    CASE Head(ind) = Head(ColorTagRed) -> 0
      [] Head(ind) = Head(ColorTagYellow) -> 1
      [] Head(ind) = Head(ColorTagGreen) -> 2

\* The elements of list that have severity sev, in their order in list.
OfSeverity(list, sev) == SelectSeq(list, LAMBDA ind : TagSeverity(ind) = sev)

C32_BoundedOrderedSink ==
    (call.fn = "ChangeLog") =>
        LET n == Len(result)
            k == Min(n, MaxRows - 1)
        IN /\ Len(changeLog) <= MaxRows
           /\ changeLog[1] = HeaderRow
           /\ Len(changeLog) = k + 1
           /\ \A i \in 1..k : changeLog[i + 1] = ChangeRow(result[n - i + 1])

\* The table is full and two events have been evicted since the last Clear.
C32_FullAfterEviction ==
    /\ call.fn = "ChangeLog"
    /\ Len(changeLog) = MaxRows
    /\ Len(result) = MaxRows + 1
    /\ call.added > Len(result)

\* C33: a retry loop that finds hasError false at its retry tick returns
\* without starting a fetch, and once hasError is false for good every retry
\* loop has returned from some point on.
C33_RetryLoopsTerminate ==
    /\ [][\A r \in RetryIds :
            (~hasError /\ retry[r].pc = "wait" /\ retry'[r] # retry[r])
                => (retry'[r].pc = "idle" /\ nFetch' = nFetch)]_vars
    /\ (<>[](~hasError)) => <>[](\A r \in RetryIds : retry[r].pc = "idle")

\* One retry loop has cleared the error and returned while another one still
\* waits for its next retry tick.
C33_LoopWaitsAfterClear ==
    /\ ~hasError
    /\ \E r, q \in RetryIds : retry[r].pc = "wait" /\ retry[q].pc = "idle"

\* The retry loops that are past their first hasError check and have not
\* returned.
ActiveRetryLoops == { r \in RetryIds : retry[r].pc \notin {"idle", "start"} }

\* C34: at any time at most one retryInBackground loop is active.
C34_AtMostOneRetryLoop == Cardinality(ActiveRetryLoops) <= 1

\* No refresh and no retry is in progress: the handler waits in its select,
\* every retry loop has returned and no closure is waiting for the UI thread.
Quiescent ==
    /\ h.pc = "select"
    /\ ~isRefreshing
    /\ \A r \in RetryIds : retry[r].pc = "idle"
    /\ uiQueue = << >>

\* C35: whenever no refresh or retry is in progress and the error flag is
\* clear, the keys of the state cache are the nodes of the node view's map.
C35_CacheKeysAreShownNodes ==
    (Quiescent /\ ~hasError) => DOMAIN cache = nodeMap

\* The rows of the change log after a step that its entries for node n with
\* change type ctype occupy, among the rows the step added.
AddedRows(n, ctype) ==
    { i \in 2..(Len(changeLog') - Len(changeLog) + 1) :
        /\ changeLog'[i][2] = "Node"
        /\ changeLog'[i][3] = n
        /\ changeLog'[i][4] = ctype }

\* C36: the comparison pass of a successful refresh logs exactly one Node
\* Removed event for every node of the node view's map that the new snapshot
\* lacks and removes its cache entry, and logs no Removed event for a node
\* the new snapshot holds.
C36_RemovedNodesLogged ==
    [][(h.pc = "diff" /\ h'.pc = "publish") =>
          \A n \in Nodes :
              /\ (n \in nodeMap /\ n \notin DOMAIN h.nodeData) =>
                    (Cardinality(AddedRows(n, "Removed")) = 1 /\ n \notin DOMAIN cache')
              /\ (n \in DOMAIN h.nodeData) => AddedRows(n, "Removed") = {}]_vars

\* C37: Compare with nil data on a key that has no cache entry returns no
\* event and leaves the cache without the key.
C37_NilOnMissingKeyIsSilent ==
    (CompareDone /\ ~callers[1].exists /\ callers[1].newData = NilData) =>
        /\ callers[1].events = << >>
        /\ callers[1].key \notin DOMAIN sc

\* Snapshots a and b have the same nodes, and every node has the same
\* status, version, pod count and pods in both (name, age, pod indicators
\* and total pods may differ).
TrackedEqual(a, b) ==
    /\ DOMAIN a = DOMAIN b
    /\ \A n \in DOMAIN a :
          /\ a[n].Status = b[n].Status
          /\ a[n].Version = b[n].Version
          /\ a[n].PodCount = b[n].PodCount
          /\ a[n].Pods = b[n].Pods

\* C38: after the initial load the state cache holds every node of the
\* first snapshot and the change log is empty; a first refresh whose
\* snapshot equals the initial one in all tracked fields returns no event
\* and leaves the change log empty.
C38_InitialLoadIsSilent ==
    (call.fn = "refreshData") =>
        /\ (result = NoResult) =>
              /\ DOMAIN cache = DOMAIN call.initial
              /\ \A n \in DOMAIN cache : cache[n] = call.initial[n]
              /\ changeLog = << HeaderRow >>
        /\ \A r \in Results :
              TrackedEqual(call.initial, r.nodeData) =>
                  /\ r.events = << >>
                  /\ changeLog = << HeaderRow >>

\* The first refresh returned both initial nodes with the tracked fields
\* unchanged and another age, and nothing was logged.
C38_SameSnapshotOtherAge ==
    /\ call.fn = "refreshData"
    /\ DOMAIN call.initial = CacheKeys
    /\ \E r \in Results :
          /\ TrackedEqual(call.initial, r.nodeData)
          /\ r.nodeData["n1"].Age # call.initial["n1"].Age
          /\ r.events = << >>
          /\ changeLog = << HeaderRow >>

====
